---- MODULE Spec2Model ----
(***************************************************************************)
(* Household finance tracker (src/App.tsx): the credit-card installment    *)
(* allocation of handleSaveTransaction, the entry form that feeds it and   *)
(* the ledger it appends to.                                               *)
(*                                                                         *)
(* Dates.  A JavaScript Date is an instant; the program reads it through   *)
(* the local calendar (getDate, getMonth, getFullYear, date-fns) and       *)
(* stores it through toISOString, which writes the UTC calendar.  A Date   *)
(* is modelled by its local calendar fields [y, m, d, h] (m in 1..12, so   *)
(* JavaScript's month index is m - 1; minutes and seconds are always 0 in  *)
(* the dates the program builds) and a stored string by what it spells:    *)
(* kind "Z" is a UTC instant "yyyy-MM-ddTHH:00:00.000Z", kind "D" the      *)
(* date-only form "yyyy-MM-dd" of an <input type=date>, kind "E" the       *)
(* empty string.  tz is the zone's offset in hours (local = UTC + tz).     *)
(*                                                                         *)
(* Amounts.  A JavaScript number is modelled by the exact rational         *)
(* [n, d] in lowest terms; IEEE-754 division is exact whenever the         *)
(* quotient is representable, which covers every evenly divisible split.   *)
(*                                                                         *)
(* Scope.  Seven specifications share the actions: Spec (the ledger:       *)
(* add, edit, delete, toggle), SpecSettings (cards and accounts coming and *)
(* going, the receipt upload, the entry form under the settings modal),    *)
(* SpecAlloc (one submit of the entry form over a wide range of cards,     *)
(* dates and amounts), SpecView (the displayed month, its summary, pending *)
(* list, cards page and forecast, with signed amounts and a bank added     *)
(* between saves), SpecStore (the stored document: load, migration, save   *)
(* and page reloads), SpecCatalog (cards, accounts and categories deleted  *)
(* under records that name them) and SpecAssist (the advice request and    *)
(* the receipt upload in flight).  Tabs, the list filters and addCategory  *)
(* are left out; so is logging out, which unmounts the page.               *)
(***************************************************************************)
EXTENDS Integers, Sequences, FiniteSets, TLC

\* ------------------------------------------------------------------------
\* Calendar arithmetic of the host Date object and of date-fns
\* ------------------------------------------------------------------------

IsLeap(y) == (y % 4 = 0 /\ y % 100 # 0) \/ y % 400 = 0

DaysInMonth(y, m) ==
  IF m = 2 THEN (IF IsLeap(y) THEN 29 ELSE 28)
  ELSE IF m \in {4, 6, 9, 11} THEN 30 ELSE 31

\* (y, m) moved by n months, n >= 0 or n < 0
MonthPlus(y, m, n) ==
  LET k == (y * 12 + (m - 1)) + n
  IN  [y |-> k \div 12, m |-> (k % 12) + 1]

\* new Date(year, monthIndex, day, hours): a day past the end of the month
\* rolls over into the following month(s)
RECURSIVE NewDate(_, _, _, _)
NewDate(y, m, d, h) ==
  IF d > DaysInMonth(y, m)
  THEN LET nx == MonthPlus(y, m, 1)
       IN  NewDate(nx.y, nx.m, d - DaysInMonth(y, m), h)
  ELSE [y |-> y, m |-> m, d |-> d, h |-> h]

getDate(dt) == dt.d

\* date-fns addMonths: same day of the month, clamped to the last day of
\* the target month; the time of day is kept
addMonths(dt, n) ==
  LET t   == MonthPlus(dt.y, dt.m, n)
      dim == DaysInMonth(t.y, t.m)
  IN  [y |-> t.y, m |-> t.m, d |-> (IF dt.d >= dim THEN dim ELSE dt.d), h |-> dt.h]

\* date-fns startOfMonth
startOfMonth(dt) == [y |-> dt.y, m |-> dt.m, d |-> 1, h |-> 0]

\* date-fns isSameMonth
isSameMonth(a, b) == a.y = b.y /\ a.m = b.m

NextDay(dt) ==
  IF dt.d < DaysInMonth(dt.y, dt.m) THEN [dt EXCEPT !.d = dt.d + 1]
  ELSE LET nx == MonthPlus(dt.y, dt.m, 1)
       IN  [y |-> nx.y, m |-> nx.m, d |-> 1, h |-> dt.h]

PrevDay(dt) ==
  IF dt.d > 1 THEN [dt EXCEPT !.d = dt.d - 1]
  ELSE LET pv == MonthPlus(dt.y, dt.m, -1)
       IN  [y |-> pv.y, m |-> pv.m, d |-> DaysInMonth(pv.y, pv.m), h |-> dt.h]

\* the calendar reading k hours later (-24 < k < 24)
ShiftHours(dt, k) ==
  LET hh == dt.h + k
  IN  IF hh < 0 THEN [PrevDay(dt) EXCEPT !.h = hh + 24]
      ELSE IF hh >= 24 THEN [NextDay(dt) EXCEPT !.h = hh - 24]
      ELSE [dt EXCEPT !.h = hh]

EmptyString == [k |-> "E", y |-> 0, m |-> 0, d |-> 0, h |-> 0]

\* Date.prototype.toISOString: the UTC calendar of the instant
toISOString(dt, zone) ==
  LET u == ShiftHours(dt, 0 - zone)
  IN  [k |-> "Z", y |-> u.y, m |-> u.m, d |-> u.d, h |-> u.h]

\* date-fns parseISO: a date-only string is local midnight, a string with a
\* Z suffix is that UTC instant read in the local zone
parseISO(s, zone) ==
  IF s.k = "D" THEN [y |-> s.y, m |-> s.m, d |-> s.d, h |-> 0]
  ELSE ShiftHours([y |-> s.y, m |-> s.m, d |-> s.d, h |-> s.h], zone)

\* date-fns format(date, 'yyyy-MM-dd')
formatYMD(dt) == [k |-> "D", y |-> dt.y, m |-> dt.m, d |-> dt.d, h |-> 0]

\* ------------------------------------------------------------------------
\* Numbers
\* ------------------------------------------------------------------------

RECURSIVE Gcd(_, _)
Gcd(a, b) == IF b = 0 THEN a ELSE Gcd(b, a % b)

Abs(x) == IF x < 0 THEN 0 - x ELSE x

\* the number a / b (b > 0), in lowest terms
Frac(a, b) ==
  LET g == Gcd(Abs(a), b)
  IN  IF a = 0 THEN [n |-> 0, d |-> 1] ELSE [n |-> a \div g, d |-> b \div g]

Num(a) == [n |-> a, d |-> 1]

FracAdd(p, q) == Frac(p.n * q.d + q.n * p.d, p.d * q.d)

FracDiv(p, k) == Frac(p.n, p.d * k)
FracSub(p, q) == Frac(p.n * q.d - q.n * p.d, p.d * q.d)
FracMul(p, q) == Frac(p.n * q.n, p.d * q.d)
\* p / q for q above zero
FracQuot(p, q) == Frac(p.n * q.d, p.d * q.n)
FracLess(p, q) == p.n * q.d < q.n * p.d
\* Math.min
FracMin(p, q) == IF FracLess(q, p) THEN q ELSE p

\* ------------------------------------------------------------------------
\* Values (src/types.ts)
\* ------------------------------------------------------------------------

INCOME      == "INCOME"
EXPENSE     == "EXPENSE"
CASH_DEBIT  == "CASH_DEBIT"
CREDIT_CARD == "CREDIT_CARD"
PENDING     == "PENDING"
COMPLETED   == "COMPLETED"
STEFFANY    == "Steffany"
JEAN        == "Jean"
NoUser      == "null"

\* identifiers are positive integers; an id-valued field that is undefined
\* holds Undefined and one that holds the empty string holds EmptyId
Undefined == 0
EmptyId   == 0 - 1
Truthy(id) == id > 0

\* a string-valued field that is undefined
UndefinedString == [k |-> "U", y |-> 0, m |-> 0, d |-> 0, h |-> 0]
TruthyString(s) == s.k \in {"Z", "D"}

\* a record without the installments field
NoInstallments == [current |-> 0, total |-> 0, originalTransactionId |-> Undefined]

\* a record that never went through the edit merge has none of the three
\* extra keys of the form data
NoFormKeys ==
  [present |-> FALSE, installmentCount |-> 0, isTotalValue |-> FALSE,
   targetInvoiceDate |-> UndefinedString]

\* a description: the entered text and, for a split purchase, the
\* " (i/N)" suffix (cur = 0: no suffix)
Description(text, cur, tot) == [text |-> text, cur |-> cur, tot |-> tot]
IsEmptyDescription(dsc) == dsc.text = "" /\ dsc.cur = 0

\* the text of the amount input: empty, or a number
EmptyAmount == [k |-> "E", v |-> Num(0)]
AmountText(v) == [k |-> "N", v |-> v]
parseFloat(txt) == txt.v

\* ------------------------------------------------------------------------
\* handleSaveTransaction, add mode (src/App.tsx 231-307)
\* ------------------------------------------------------------------------

\* cards.find(c => c.id === id): the position of the first match, 0 if none
RECURSIVE FindCardFrom(_, _, _)
FindCardFrom(cs, id, i) ==
  IF i > Len(cs) THEN 0
  ELSE IF cs[i].id = id THEN i ELSE FindCardFrom(cs, id, i + 1)

\* a faulty lookup that falls back to the first card; the invalid-card
\* property C4 must not survive it
FindCardOrFirst(cs, id) ==
  IF FindCardFrom(cs, id, 1) # 0 THEN FindCardFrom(cs, id, 1)
  ELSE IF Len(cs) > 0 THEN 1 ELSE 0
FindCard(cs, id) == FindCardFrom(cs, id, 1)

\* a faulty cycle test that keeps the closing day itself in the current
\* invoice; C1 must not survive it
RollsToNextInvoiceAfter(txDay, closingDay) == txDay > closingDay

\* the billing-cycle test: a purchase on or after the closing day belongs
\* to the next invoice
RollsToNextInvoice(txDay, closingDay) == txDay >= closingDay

\* a faulty start that ignores the billing cycle; C8 must not survive it
DefaultInvoiceMonthOfPurchase(purchaseDate, card) == purchaseDate

\* the month of the first invoice, before the due day is applied
DefaultInvoiceMonth(purchaseDate, card) ==
  IF RollsToNextInvoice(getDate(purchaseDate), card.closingDay)
  THEN addMonths(purchaseDate, 1)
  ELSE purchaseDate

StartInvoiceDate(fd, card, purchaseDate, zone) ==
  IF TruthyString(fd.targetInvoiceDate)
  THEN LET selectedMonth == parseISO(fd.targetInvoiceDate, zone)
       IN  NewDate(selectedMonth.y, selectedMonth.m, card.dueDay, 0)
  ELSE LET s == DefaultInvoiceMonth(purchaseDate, card)
       IN  NewDate(s.y, s.m, card.dueDay, 0)

\* the due date of installment i (0-based)
DueDate(startInvoiceDate, i, card) ==
  LET targetMonth == addMonths(startInvoiceDate, i)
  IN  NewDate(targetMonth.y, targetMonth.m, card.dueDay, 0)

BaseAmount(fd) == fd.amount

\* two faulty splits, one that never divides and one that always does; C6
\* must not survive the first nor C7 the second
MonthlyAmountVerbatim(fd) == BaseAmount(fd)
MonthlyAmountSplit(fd) == FracDiv(BaseAmount(fd), fd.installmentCount)

\* monthlyAmount
MonthlyAmount(fd) ==
  IF fd.isTotalValue THEN FracDiv(BaseAmount(fd), fd.installmentCount)
  ELSE BaseAmount(fd)

InstallmentDescription(fd, i) ==
  IF fd.installmentCount > 1
  THEN Description(fd.description.text, i + 1, fd.installmentCount)
  ELSE fd.description

\* uuidv4() is called for the record id and, on the first installment only,
\* once more for originalTransactionId; uid is the first unused identifier
\* a faulty identifier, drawn once for the whole purchase; C13 must not
\* survive it
InstallmentIdShared(uid, i) == uid

InstallmentId(uid, i) == IF i = 0 THEN uid ELSE uid + 1 + i

\* a faulty origin that points at the first installment's own id; C28 must
\* not survive it
InstallmentOriginSelf(uid, i) == IF i = 0 THEN uid ELSE Undefined

InstallmentOrigin(uid, i) == IF i = 0 THEN uid + 1 ELSE Undefined

\* a faulty status that forgets the one supplied; C10 must not survive it
InstallmentStatusCompleted(fd) == COMPLETED

\* txStatus
InstallmentStatus(fd) == fd.status

InstallmentType(fd) == EXPENSE

CreditInstallment(fd, card, purchaseDate, txUser, uid, zone, i) ==
  [id            |-> InstallmentId(uid, i),
   description   |-> InstallmentDescription(fd, i),
   amount        |-> MonthlyAmount(fd),
   type          |-> InstallmentType(fd),
   status        |-> InstallmentStatus(fd),
   date          |-> toISOString(DueDate(StartInvoiceDate(fd, card, purchaseDate, zone), i, card), zone),
   purchaseDate  |-> toISOString(purchaseDate, zone),
   user          |-> txUser,
   paymentMethod |-> CREDIT_CARD,
   accountId     |-> Undefined,
   cardId        |-> fd.cardId,
   categoryId    |-> fd.categoryId,
   installments  |-> [current |-> i + 1, total |-> fd.installmentCount,
                      originalTransactionId |-> InstallmentOrigin(uid, i)],
   formKeys      |-> NoFormKeys]

\* a faulty cash record whose amount goes through the installment split; C5
\* must not survive it
CashRecordSplit(fd, purchaseDate, txUser, uid, zone) ==
  [id            |-> uid,
   description   |-> fd.description,
   amount        |-> MonthlyAmount(fd),
   type          |-> fd.type,
   status        |-> fd.status,
   date          |-> toISOString(purchaseDate, zone),
   purchaseDate  |-> toISOString(purchaseDate, zone),
   user          |-> txUser,
   paymentMethod |-> CASH_DEBIT,
   accountId     |-> fd.accountId,
   cardId        |-> Undefined,
   categoryId    |-> fd.categoryId,
   installments  |-> NoInstallments,
   formKeys      |-> NoFormKeys]

\* the single record of the cash/debit branch
CashRecord(fd, purchaseDate, txUser, uid, zone) ==
  [id            |-> uid,
   description   |-> fd.description,
   amount        |-> BaseAmount(fd),
   type          |-> fd.type,
   status        |-> fd.status,
   date          |-> toISOString(purchaseDate, zone),
   purchaseDate  |-> toISOString(purchaseDate, zone),
   user          |-> txUser,
   paymentMethod |-> CASH_DEBIT,
   accountId     |-> fd.accountId,
   cardId        |-> Undefined,
   categoryId    |-> fd.categoryId,
   installments  |-> NoInstallments,
   formKeys      |-> NoFormKeys]

\* a faulty loop bound, one installment short; C2 must not survive it
InstallmentLoopCountFrom1(fd) == fd.installmentCount - 1

\* the loop bound of the installment loop
InstallmentLoopCount(fd) == fd.installmentCount

\* transactionsToAdd of the add branch; now is the value of new Date()
TransactionsToAdd(fd, cs, user, uid, now, zone) ==
  LET purchaseDate == IF TruthyString(fd.date) THEN parseISO(fd.date, zone) ELSE now
      txUser       == IF user # NoUser THEN user ELSE STEFFANY
  IN  IF fd.paymentMethod = CREDIT_CARD /\ Truthy(fd.cardId)
      THEN LET ci == FindCard(cs, fd.cardId)
           IN  IF ci # 0
               THEN [i \in 1..InstallmentLoopCount(fd) |->
                       CreditInstallment(fd, cs[ci], purchaseDate, txUser, uid, zone, i - 1)]
               ELSE << >>
      ELSE << CashRecord(fd, purchaseDate, txUser, uid, zone) >>

\* how many identifiers the add branch draws
UuidsDrawn(added) ==
  IF Len(added) = 0 THEN 0
  ELSE IF added[1].paymentMethod = CREDIT_CARD THEN Len(added) + 1 ELSE 1

\* ------------------------------------------------------------------------
\* handleSaveTransaction, edit mode (src/App.tsx 223-229)
\* ------------------------------------------------------------------------

\* { ...t, ...formData }: every key of the form data replaces the record's
MergeFormData(t, fd) ==
  [t EXCEPT !.type          = fd.type,
            !.description   = fd.description,
            !.amount        = fd.amount,
            !.date          = fd.date,
            !.status        = fd.status,
            !.categoryId    = fd.categoryId,
            !.paymentMethod = fd.paymentMethod,
            !.cardId        = fd.cardId,
            !.accountId     = fd.accountId,
            !.formKeys      = [present |-> TRUE,
                               installmentCount  |-> fd.installmentCount,
                               isTotalValue      |-> fd.isTotalValue,
                               targetInvoiceDate |-> fd.targetInvoiceDate]]

EditTransactions(txs, id, fd) ==
  [i \in 1..Len(txs) |-> IF txs[i].id = id THEN MergeFormData(txs[i], fd) ELSE txs[i]]

\* ------------------------------------------------------------------------
\* TransactionForm (src/App.tsx 1058-1137)
\* ------------------------------------------------------------------------

\* a Partial<Transaction> with every key undefined
BlankTransaction ==
  [id            |-> Undefined,
   description   |-> Description("", 0, 0),
   amount        |-> Num(0),
   type          |-> EXPENSE,
   status        |-> COMPLETED,
   date          |-> UndefinedString,
   purchaseDate  |-> UndefinedString,
   user          |-> NoUser,
   paymentMethod |-> CASH_DEBIT,
   accountId     |-> Undefined,
   cardId        |-> Undefined,
   categoryId    |-> Undefined,
   installments  |-> NoInstallments,
   formKeys      |-> NoFormKeys]

\* editingTransaction: null, or the object the form is opened on
NullEditing == [present |-> FALSE, t |-> BlankTransaction]
Editing(t)  == [present |-> TRUE, t |-> t]

\* initialData?.id
HasId(ed) == ed.present /\ Truthy(ed.t.id)

\* the memo invoiceOptions: the three candidate invoice months
InvoiceOptions(form, cs, zone) ==
  IF form.paymentMethod # CREDIT_CARD \/ ~Truthy(form.cardId) THEN << >>
  ELSE LET ci == FindCard(cs, form.cardId)
       IN  IF ci = 0 THEN << >>
           ELSE IF ~TruthyString(form.date) THEN << >>
           ELSE LET purchaseDate == parseISO(form.date, zone)
                    baseMonth == IF getDate(purchaseDate) >= cs[ci].closingDay
                                 THEN addMonths(startOfMonth(purchaseDate), 1)
                                 ELSE startOfMonth(purchaseDate)
                IN  << baseMonth, addMonths(baseMonth, 1), addMonths(baseMonth, 2) >>

\* the argument handleSubmit passes to onSubmit; initialData is the current
\* value of the prop
FormData(form, initialData) ==
  LET credit == form.type = EXPENSE /\ form.paymentMethod = CREDIT_CARD
      cash   == form.type = INCOME \/ form.paymentMethod = CASH_DEBIT
  IN  [type              |-> form.type,
       description       |-> form.description,
       amount            |-> parseFloat(form.amount),
       date              |-> form.date,
       status            |-> form.status,
       categoryId        |-> IF Truthy(form.categoryId) THEN form.categoryId ELSE Undefined,
       paymentMethod     |-> IF form.type = INCOME THEN CASH_DEBIT ELSE form.paymentMethod,
       cardId            |-> IF credit THEN form.cardId ELSE Undefined,
       accountId         |-> IF cash THEN form.accountId ELSE Undefined,
       installmentCount  |-> IF ~initialData.present /\ form.paymentMethod = CREDIT_CARD
                             THEN form.installments ELSE 1,
       isTotalValue      |-> form.isTotalValue,
       targetInvoiceDate |-> IF credit THEN form.targetInvoiceDate ELSE UndefinedString]

\* a faulty validation that lets an empty description through; C14 must not
\* survive it
SubmitRejectedNoDescription(form) ==
  \/ form.amount.k = "E"
  \/ (form.type = EXPENSE /\ form.paymentMethod = CREDIT_CARD /\ ~Truthy(form.cardId))

\* the two early returns of handleSubmit
SubmitRejected(form) ==
  \/ form.amount.k = "E"
  \/ IsEmptyDescription(form.description)
  \/ (form.type = EXPENSE /\ form.paymentMethod = CREDIT_CARD /\ ~Truthy(form.cardId))

\* which early return: 1 for a missing amount or description, 2 for a
\* card purchase without a card
RejectReason(form) ==
  IF form.amount.k = "E" \/ IsEmptyDescription(form.description) THEN 1 ELSE 2

\* ------------------------------------------------------------------------
\* State
\* ------------------------------------------------------------------------

VARIABLES
  transactions,        \* data.transactions
  cards,               \* data.cards
  accounts,            \* data.accounts
  currentUser,         \* the logged-in profile, NoUser on the login screen
  showAddModal,        \* the entry form is mounted
  showSettingsModal,   \* the settings form is mounted (drawn over the entry form)
  editingTransaction,  \* the initialData prop of the entry form while it is
                       \* mounted (every path that mounts it assigns it first:
                       \* 313, 370, 383, 501), NullEditing while it is not
  formInit,            \* the state the mounted entry form was initialised to
  receipt,             \* handleReceiptUpload in flight: its position and the
                       \* data.cards its closure captured
  nextId,              \* the next identifier uuidv4() returns, per collection
  tz,                  \* the zone offset of the host, in hours
  currentDate,         \* the month the pages display
  categories,          \* data.categories
  loadPc,              \* the load effect: "mounted" before it ran, "loaded"
                       \* once it set isLoaded, "failed" when it threw
  stored,              \* the document under STORAGE_KEY in localStorage
  advice,              \* geminiAdvice, isLoadingAdvice and the request in flight
  lastOp               \* the handler that ran last and its argument

vars == << transactions, cards, accounts, currentUser, showAddModal,
           showSettingsModal, editingTransaction, formInit, receipt,
           nextId, tz, currentDate, categories, loadPc, stored, advice, lastOp >>

\* ------------------------------------------------------------------------
\* Bounds and input sets
\* ------------------------------------------------------------------------

MaxTx           == 3    \* records the ledger may hold
MaxInstallments == 2    \* installment counts the form offers (24 in the source)
MaxCards        == 1    \* cards data.cards may hold
MaxAccounts     == 1    \* accounts data.accounts may hold
MaxTxIds        == 4    \* identifiers drawn for records and origin links
MaxCardIds      == 2    \* cards ever registered
MaxAccountIds   == 1    \* accounts ever registered
AllocInstallments == 4  \* installment counts offered where one purchase is allocated
MaxSettingsTx   == 2    \* records the ledger may hold where cards come and go
MaxViewTx       == 2    \* records the ledger may hold where the month is turned
MaxMonthsBack   == 0    \* months the display may be turned back from today
MaxMonthsAhead  == 2    \* months the display may be turned ahead of today
MaxStoreTx      == 2    \* records the ledger may hold where the page is restarted
MaxAssistTx     == 2    \* records the ledger may hold while requests are in flight
MaxCatalogTx    == 3    \* records the ledger may hold where the settings delete

Users == {STEFFANY, JEAN}

\* uuidv4() never returns the same string twice; the identifiers of the
\* three collections are never compared with each other and are drawn from
\* disjoint ranges
FirstId == [tx |-> 1, card |-> 101, account |-> 201]
Zones == {0 - 3, 2}
HomeZone == 0 - 3

\* defaultCategories: cat_1 (expense) and cat_5 (income)
CategoryIds == {301, 305}

YMD(y, m, d) == [k |-> "D", y |-> y, m |-> m, d |-> d, h |-> 0]
At(y, m, d, h) == [y |-> y, m |-> m, d |-> d, h |-> h]

\* (limit, closingDay, dueDay, last4Digits) of the cards the user may register
\* a last4Digits string is the sequence of its digits
DescInputs   == { Description("Mercado", 0, 0), Description("", 0, 0) }
AmountInputs == { EmptyAmount, AmountText(Num(90)) }
DateInputs   == { YMD(2024, 1, 26) }
Clock        == { At(2024, 1, 26, 21) }

\* keep: whether the user may leave the description and the amount as
\* mounted; mode: the values the Total/Parcela toggle may be left at besides its
\* initial TRUE; pick: which of the three invoice options the user may select
Inputs ==
  [desc |-> DescInputs, amount |-> AmountInputs, date |-> DateInputs,
   cat |-> {}, inst |-> 1..MaxInstallments, mode |-> {}, pick |-> {1},
   clock |-> Clock, catalog |-> {[limit |-> Num(100), closingDay |-> 25, dueDay |-> 5,
                                  last4Digits |-> <<1, 2, 3, 4>>]},
   keep |-> TRUE, maxTx |-> MaxTx, maxIds |-> MaxTxIds]

\* ------------------------------------------------------------------------
\* The entry form between mount and submit
\* ------------------------------------------------------------------------

Ids(seq) == {seq[i].id : i \in 1..Len(seq)}

\* the useState initialisers, followed by the two mount effects
InitialForm(initialData, cs, accs, now, zone) ==
  LET t == initialData.t
      cardId0 == IF Truthy(t.cardId) THEN t.cardId ELSE EmptyId
      acc0 == IF Truthy(t.accountId) THEN t.accountId
              ELSE IF Len(accs) > 0 THEN accs[1].id ELSE EmptyId
  IN  [type          |-> t.type,
       description   |-> t.description,
       amount        |-> IF initialData.present THEN AmountText(t.amount) ELSE EmptyAmount,
       date          |-> IF TruthyString(t.purchaseDate) THEN formatYMD(parseISO(t.purchaseDate, zone))
                         ELSE IF TruthyString(t.date) THEN formatYMD(parseISO(t.date, zone))
                         ELSE formatYMD(now),
       paymentMethod |-> t.paymentMethod,
       status        |-> t.status,
       cardId        |-> IF ~initialData.present /\ cardId0 = EmptyId /\ Len(cs) > 0
                         THEN cs[1].id ELSE cardId0,
       accountId     |-> acc0,
       categoryId    |-> IF Truthy(t.categoryId) THEN t.categoryId ELSE EmptyId,
       installments  |-> 1,
       isTotalValue  |-> TRUE,
       targetInvoiceDate |-> EmptyString]

\* NoForm: no form is mounted
NoForm == InitialForm(NullEditing, << >>, << >>, At(0, 1, 1, 0), 0)

\* what the user can have brought the mounted form to when Submit is pressed
TypeChoices(f0, ed) == IF HasId(ed) THEN {f0.type} ELSE {EXPENSE, INCOME}

MethodChoices(f0, ed) == IF HasId(ed) THEN {f0.paymentMethod} ELSE {CASH_DEBIT, CREDIT_CARD}

\* a text input holds what the user typed or, if left alone, what it was
\* mounted with
TextChoices(mounted, typed, inp) == IF inp.keep THEN typed \cup {mounted} ELSE typed

\* the card select lists data.cards; a new form selects cards[0] by effect
CardChoices(f0, ed, cs) ==
  IF HasId(ed) THEN {f0.cardId}
  ELSE IF ~ed.present /\ Len(cs) > 0 THEN ({f0.cardId} \cup Ids(cs)) \ {EmptyId}
  ELSE {f0.cardId} \cup Ids(cs)

\* the account select lists data.accounts; an empty accountId is replaced
\* by accounts[0] by effect
AccountChoices(f0, ed, accs) ==
  LET base == IF f0.accountId = EmptyId /\ Len(accs) > 0 THEN accs[1].id ELSE f0.accountId
  IN  IF HasId(ed) THEN {base} ELSE {base} \cup Ids(accs)

\* the installment select and the Total/Parcela toggle are drawn for a card
\* purchase that is not an edit
InstallmentChoices(ed, cs, inp) == IF ~HasId(ed) /\ Len(cs) > 0 THEN inp.inst ELSE {1}

TotalChoices(ed, cs, inp) ==
  IF ~HasId(ed) /\ Len(cs) > 0 /\ inp.inst # {1} THEN {TRUE} \cup inp.mode ELSE {TRUE}

\* every invoice option the select can have offered while the form was open
OfferedInvoices(f0, cs, inp, zone) ==
  { toISOString(InvoiceOptions([paymentMethod |-> CREDIT_CARD, cardId |-> c, date |-> d],
                               cs, zone)[k], zone) :
      c \in Ids(cs), d \in {x \in inp.date \cup {f0.date} : TruthyString(x)}, k \in inp.pick }

\* targetInvoiceDate: empty until an option exists; a new form then takes
\* the first option by effect; afterwards only the select changes it
TargetChoices(form, offered, ed, cs, zone) ==
  IF HasId(ed) THEN {EmptyString}
  ELSE IF ~ed.present /\ InvoiceOptions(form, cs, zone) # << >>
       THEN offered
       ELSE offered \cup {EmptyString}

\* ------------------------------------------------------------------------
\* Initial state
\* ------------------------------------------------------------------------

Idle == [pc |-> "idle", cards |-> << >>]

\* lastOp: the handler that ran last, the form data it was given (req),
\* the value new Date() had (now) and an argument: the record, card or
\* account id it was called on, the length of the ledger before an add,
\* the early return taken by a rejected submit; options is the invoiceOptions
\* memo of the form that was submitted, text the content of its amount
\* input and installments the value of its installment select (1 when the
\* card section, which holds the select, is not drawn)
Op(kind, req, now, arg) ==
  [kind |-> kind, req |-> req, now |-> now, arg |-> arg, options |-> << >>,
   text |-> EmptyAmount, installments |-> 1]
NoRequest == FormData(NoForm, NullEditing)
NoClock == At(0, 1, 1, 0)
OtherOp == Op("other", NoRequest, NoClock, 0)

\* the useState initialisers of App (128-141) and initialData (63-68):
\* a first start, nothing stored
\* isLoaded of App
isLoaded == loadPc = "loaded"

\* JSON.stringify(data): the document setItem writes.  Every field of the
\* state is a string, a finite number, an array or an object of those, and a
\* field holding undefined is left out, which the values above already spell
\* as Undefined
Stringify(txs, cs, accs, cats) ==
  [exists |-> TRUE, byApp |-> TRUE,
   hasTransactions |-> TRUE, transactions |-> txs,
   cards |-> cs, accounts |-> accs,
   hasCategories |-> TRUE, categories |-> cats]

\* defaultCategories (54-61): cat_1 .. cat_6, cat_5 being the income one
DefaultCategories ==
  [i \in 1..6 |-> [id |-> 300 + i, type |-> IF i = 5 THEN INCOME ELSE EXPENSE]]

\* geminiAdvice === null, isLoadingAdvice === false, no request in flight
NoAdvice == [text |-> "null", loading |-> FALSE, pending |-> FALSE]

InitFresh ==
  /\ transactions = << >>
  /\ cards = << >>
  /\ accounts = << >>
  /\ currentUser = NoUser
  /\ showAddModal = FALSE
  /\ showSettingsModal = FALSE
  /\ editingTransaction = NullEditing
  /\ formInit = NoForm
  /\ receipt = Idle
  /\ nextId = FirstId
  /\ tz = HomeZone
  /\ currentDate \in Clock
  /\ categories = DefaultCategories
  /\ loadPc = "loaded"
  /\ stored = Stringify(transactions, cards, accounts, categories)
  /\ advice = NoAdvice
  /\ lastOp = OtherOp

\* A card and an account as addCard and addBank stored them in an earlier
\* session
HomeCard ==
  [id |-> FirstId.card, limit |-> Num(100), closingDay |-> 25, dueDay |-> 5,
   last4Digits |-> <<1, 2, 3, 4>>]
HomeAccount == [id |-> FirstId.account]

\* the documents the load effect may find under STORAGE_KEY
StoredData ==
  { [transactions |-> << >>, cards |-> << >>, accounts |-> << >>],
    [transactions |-> << >>, cards |-> << HomeCard >>, accounts |-> << >>],
    [transactions |-> << >>, cards |-> << HomeCard >>, accounts |-> << HomeAccount >>] }

\* a start of the app: the state after the load effect (146-166) has run
Init ==
  /\ \E doc \in StoredData :
       /\ transactions = doc.transactions
       /\ cards = doc.cards
       /\ accounts = doc.accounts
       /\ nextId = [tx |-> FirstId.tx,
                    card |-> FirstId.card + Len(doc.cards),
                    account |-> FirstId.account + Len(doc.accounts)]
  /\ currentUser = NoUser
  /\ showAddModal = FALSE
  /\ showSettingsModal = FALSE
  /\ editingTransaction = NullEditing
  /\ formInit = NoForm
  /\ receipt = Idle
  /\ tz = HomeZone
  /\ currentDate \in Clock
  /\ categories = DefaultCategories
  /\ loadPc = "loaded"
  /\ stored = Stringify(transactions, cards, accounts, categories)
  /\ advice = NoAdvice
  /\ lastOp = OtherOp

\* ------------------------------------------------------------------------
\* What the user can reach: the analysing overlay covers everything, a
\* modal covers the page, and the settings modal covers the entry form
\* ------------------------------------------------------------------------

PageUsable     == currentUser # NoUser /\ receipt.pc # "analyzing"
                  /\ ~showAddModal /\ ~showSettingsModal
FormUsable     == currentUser # NoUser /\ receipt.pc # "analyzing"
                  /\ showAddModal /\ ~showSettingsModal
SettingsUsable == currentUser # NoUser /\ receipt.pc # "analyzing"
                  /\ showSettingsModal

dataVars == << transactions, cards, accounts >>
restVars == << categories, loadPc, advice >>

\* the save effect (169-173), which runs after every commit that replaced
\* data or isLoaded
Saved ==
  stored' = IF loadPc' = "loaded"
            THEN Stringify(transactions', cards', accounts', categories')
            ELSE stored
formVars == << showAddModal, editingTransaction, formInit >>

\* ------------------------------------------------------------------------
\* The memos of App (src/App.tsx 178-218)
\* ------------------------------------------------------------------------

\* new Date(t.date).getTime(), up to a monotone rescaling: both a full ISO
\* string and a date-only string are read as UTC by the Date constructor
GetTime(str) == ((str.y * 12 + str.m) * 32 + str.d) * 24 + str.h

\* Array.prototype.sort with (a, b) => time(b) - time(a): newest first,
\* records of equal time in their ledger order (the sort is stable)
RECURSIVE InsertByDate(_, _)
InsertByDate(t, sorted) ==
  IF sorted = << >> THEN << t >>
  ELSE IF GetTime(sorted[1].date) >= GetTime(t.date)
       THEN << sorted[1] >> \o InsertByDate(t, Tail(sorted))
       ELSE << t >> \o sorted

RECURSIVE SortByDateDesc(_)
SortByDateDesc(rs) ==
  IF rs = << >> THEN << >>
  ELSE InsertByDate(rs[Len(rs)], SortByDateDesc(SubSeq(rs, 1, Len(rs) - 1)))

\* the filter of currentMonthTransactions
InDisplayedMonth(t, month, zone) == isSameMonth(parseISO(t.date, zone), month)

CurrentMonthTransactions(txs, month, zone) ==
  SortByDateDesc(SelectSeq(txs, LAMBDA t : InDisplayedMonth(t, month, zone)))

\* a faulty turn that counts records of any status as real; C12 must not
\* survive it
SummaryStepAnyStatus(acc, t) ==
  IF t.type = INCOME
  THEN [acc EXCEPT !.incomeProjected = FracAdd(@, t.amount),
                   !.incomeReal = FracAdd(@, t.amount)]
  ELSE [acc EXCEPT !.expenseProjected = FracAdd(@, t.amount),
                   !.expenseReal = FracAdd(@, t.amount)]

\* one turn of the forEach of summary
SummaryStep(acc, t) ==
  LET projected ==
        IF t.type = INCOME
        THEN [acc EXCEPT !.incomeProjected = FracAdd(@, t.amount)]
        ELSE [acc EXCEPT !.expenseProjected = FracAdd(@, t.amount)]
  IN  IF t.status = COMPLETED
      THEN IF t.type = INCOME
           THEN [projected EXCEPT !.incomeReal = FracAdd(@, t.amount)]
           ELSE [projected EXCEPT !.expenseReal = FracAdd(@, t.amount)]
      ELSE projected

RECURSIVE SummaryLoop(_, _)
SummaryLoop(rs, acc) ==
  IF rs = << >> THEN acc ELSE SummaryLoop(Tail(rs), SummaryStep(acc, rs[1]))

Summary(monthTransactions) ==
  LET acc == SummaryLoop(monthTransactions,
                         [incomeReal |-> Num(0), expenseReal |-> Num(0),
                          incomeProjected |-> Num(0), expenseProjected |-> Num(0)])
  IN  [incomeReal       |-> acc.incomeReal,
       expenseReal      |-> acc.expenseReal,
       balanceReal      |-> FracSub(acc.incomeReal, acc.expenseReal),
       balanceProjected |-> FracSub(acc.incomeProjected, acc.expenseProjected)]

\* a faulty digest that files a pending record under its accounting date;
\* C20 must not survive it
IsPendingInByDate(t, month, zone) ==
  t.status = PENDING /\ isSameMonth(parseISO(t.date, zone), month)

\* the filter of pendingTransactions
IsPendingIn(t, month, zone) ==
  IF t.status # PENDING THEN FALSE
  ELSE LET pDate == IF TruthyString(t.purchaseDate)
                    THEN parseISO(t.purchaseDate, zone)
                    ELSE parseISO(t.date, zone)
       IN  isSameMonth(pDate, month)

PendingTransactions(txs, month, zone) ==
  SortByDateDesc(SelectSeq(txs, LAMBDA t : IsPendingIn(t, month, zone)))

\* the memos as the current render holds them
currentMonthTransactions == CurrentMonthTransactions(transactions, currentDate, tz)
summary == Summary(currentMonthTransactions)
pendingTransactions == PendingTransactions(transactions, currentDate, tz)

\* ------------------------------------------------------------------------
\* The cards page and the invoice forecast (src/App.tsx 574-589, 919-946)
\* ------------------------------------------------------------------------

\* the 'ALL' entry of the card picker and of the category filter
ALL == 0 - 2

\* a faulty matchCard that lets every record through for 'ALL'; C21 must not
\* survive it
MatchCardAnyMethod(t, selectedCardId) ==
  IF selectedCardId = ALL THEN TRUE ELSE t.cardId = selectedCardId

MatchCard(t, selectedCardId) ==
  IF selectedCardId = ALL THEN t.paymentMethod = CREDIT_CARD
  ELSE t.cardId = selectedCardId

MatchCat(t, filterCategory) == filterCategory = ALL \/ t.categoryId = filterCategory

\* Array.prototype.sort with (a, b) => time(a) - time(b): oldest first,
\* records of equal time in their ledger order
RECURSIVE InsertByDateAsc(_, _)
InsertByDateAsc(t, sorted) ==
  IF sorted = << >> THEN << t >>
  ELSE IF GetTime(sorted[1].date) <= GetTime(t.date)
       THEN << sorted[1] >> \o InsertByDateAsc(t, Tail(sorted))
       ELSE << t >> \o sorted

RECURSIVE SortByDateAsc(_)
SortByDateAsc(rs) ==
  IF rs = << >> THEN << >>
  ELSE InsertByDateAsc(rs[1], SortByDateAsc(Tail(rs)))

CardTransactions(txs, selectedCardId, filterCategory, month, zone) ==
  SortByDateAsc(SelectSeq(txs, LAMBDA t :
    /\ MatchCard(t, selectedCardId)
    /\ isSameMonth(parseISO(t.date, zone), month)
    /\ MatchCat(t, filterCategory)))

\* reduce((sum, t) => sum + t.amount, 0)
RECURSIVE ReduceAmounts(_, _)
ReduceAmounts(rs, sum) ==
  IF rs = << >> THEN sum ELSE ReduceAmounts(Tail(rs), FracAdd(sum, rs[1].amount))

InvoiceTotal(txs, selectedCardId, filterCategory, month, zone) ==
  ReduceAmounts(CardTransactions(txs, selectedCardId, filterCategory, month, zone), Num(0))

RECURSIVE ReduceLimits(_, _)
ReduceLimits(cs, sum) ==
  IF cs = << >> THEN sum ELSE ReduceLimits(Tail(cs), FracAdd(sum, cs[1].limit))

\* currentCard.limit, or the sum of the limits for 'ALL' and for a selection
\* that find() does not resolve
DisplayLimit(cs, selectedCardId) ==
  IF selectedCardId # ALL /\ FindCardFrom(cs, selectedCardId, 1) # 0
  THEN cs[FindCardFrom(cs, selectedCardId, 1)].limit
  ELSE ReduceLimits(cs, Num(0))

LimitUsedPercent(txs, cs, selectedCardId, filterCategory, month, zone) ==
  LET displayLimit == DisplayLimit(cs, selectedCardId)
      invoiceTotal == InvoiceTotal(txs, selectedCardId, filterCategory, month, zone)
  IN  IF FracLess(Num(0), displayLimit)
      THEN FracMin(FracMul(FracQuot(invoiceTotal, displayLimit), Num(100)), Num(100))
      ELSE Num(0)

\* Array.from({ length: 13 }, (_, i) => i): the offset of entry i (from 1)
ForecastOffset(i) == i - 1

\* futureInvoices of the dashboard: one entry per offset
FutureInvoices(txs, month, zone) ==
  [i \in 1..13 |->
     LET target == addMonths(month, ForecastOffset(i))
     IN  [date  |-> target,
          total |-> ReduceAmounts(SelectSeq(txs, LAMBDA t :
                      /\ t.type = EXPENSE
                      /\ t.paymentMethod = CREDIT_CARD
                      /\ isSameMonth(parseISO(t.date, zone), target)), Num(0))]]

futureInvoices == FutureInvoices(transactions, currentDate, tz)

\* ------------------------------------------------------------------------
\* Actions
\* ------------------------------------------------------------------------

\* LoginScreen onLogin
Login(users) ==
  /\ isLoaded
  /\ currentUser = NoUser
  /\ \E u \in users : currentUser' = u
  /\ lastOp' = OtherOp
  /\ UNCHANGED << dataVars, formVars, showSettingsModal, receipt, nextId, tz, currentDate, restVars, stored >>

\* the + button
OpenAdd(inp) ==
  /\ PageUsable
  /\ \E now \in inp.clock :
       /\ editingTransaction' = NullEditing
       /\ showAddModal' = TRUE
       /\ formInit' = InitialForm(NullEditing, cards, accounts, now, tz)
  /\ lastOp' = OtherOp
  /\ UNCHANGED << dataVars, currentUser, showSettingsModal, receipt, nextId, tz, currentDate, restVars, stored >>

\* the entry modal's onClose
CloseAdd ==
  /\ FormUsable
  /\ showAddModal' = FALSE
  /\ editingTransaction' = NullEditing
  /\ formInit' = NoForm
  /\ lastOp' = OtherOp
  /\ UNCHANGED << dataVars, currentUser, showSettingsModal, receipt, nextId, tz, currentDate, restVars, stored >>

handleEditClick(inp) ==
  /\ PageUsable
  /\ \E i \in 1..Len(transactions), now \in inp.clock :
       /\ editingTransaction' = Editing(transactions[i])
       /\ showAddModal' = TRUE
       /\ formInit' = InitialForm(Editing(transactions[i]), cards, accounts, now, tz)
       /\ lastOp' = OtherOp
  /\ UNCHANGED << dataVars, currentUser, showSettingsModal, receipt, nextId, tz, currentDate, restVars, stored >>

\* the installment select (1300-1312), drawn inside the card section
SelectedInstallments(form) ==
  IF form.type = EXPENSE /\ form.paymentMethod = CREDIT_CARD THEN form.installments ELSE 1

\* handleSaveTransaction(formData), reached from the form only
handleSaveTransaction(form, now, inp) ==
  LET fd == FormData(form, editingTransaction)
  IN  IF HasId(editingTransaction)
      THEN /\ transactions' = EditTransactions(transactions, editingTransaction.t.id, fd)
           /\ editingTransaction' = NullEditing
           /\ showAddModal' = FALSE
           /\ formInit' = NoForm
           /\ lastOp' = [Op("edit", fd, now, editingTransaction.t.id)
                          EXCEPT !.options = InvoiceOptions(form, cards, tz),
                                     !.text = form.amount]
           /\ UNCHANGED << cards, accounts, currentUser, showSettingsModal, receipt, nextId, tz, currentDate, restVars >>
           /\ Saved
      ELSE LET added == TransactionsToAdd(fd, cards, currentUser, nextId.tx, now, tz)
           IN  /\ Len(transactions) + Len(added) <= inp.maxTx
               /\ nextId.tx + UuidsDrawn(added) <= FirstId.tx + inp.maxIds
               /\ transactions' = transactions \o added
               /\ nextId' = [nextId EXCEPT !.tx = @ + UuidsDrawn(added)]
               /\ showAddModal' = FALSE
               /\ formInit' = NoForm
               /\ editingTransaction' = NullEditing
               /\ lastOp' = [Op("add", fd, now, Len(transactions))
                              EXCEPT !.options = InvoiceOptions(form, cards, tz),
                                     !.text = form.amount,
                                     !.installments = SelectedInstallments(form)]
               /\ UNCHANGED << cards, accounts, currentUser, showSettingsModal,
                               receipt, tz, currentDate, restVars >>
               /\ Saved

\* TransactionForm.handleSubmit on the form as the user left it
handleSubmit(inp) ==
  /\ FormUsable
  /\ LET offered == OfferedInvoices(formInit, cards, inp, tz) IN
     \E type \in TypeChoices(formInit, editingTransaction),
        description \in TextChoices(formInit.description, inp.desc, inp),
        amount \in TextChoices(formInit.amount, inp.amount, inp),
        date \in inp.date \cup {formInit.date},
        paymentMethod \in MethodChoices(formInit, editingTransaction),
        status \in {PENDING, COMPLETED},
        cardId \in CardChoices(formInit, editingTransaction, cards),
        accountId \in AccountChoices(formInit, editingTransaction, accounts),
        categoryId \in TextChoices(formInit.categoryId, inp.cat, inp),
        installments \in InstallmentChoices(editingTransaction, cards, inp),
        isTotalValue \in TotalChoices(editingTransaction, cards, inp),
        now \in inp.clock :
       LET f1 == [type |-> type, description |-> description, amount |-> amount,
                  date |-> date, paymentMethod |-> paymentMethod, status |-> status,
                  cardId |-> cardId, accountId |-> accountId, categoryId |-> categoryId,
                  installments |-> installments, isTotalValue |-> isTotalValue,
                  targetInvoiceDate |-> EmptyString]
       IN  \E target \in TargetChoices(f1, offered, editingTransaction, cards, tz) :
             LET form == [f1 EXCEPT !.targetInvoiceDate = target]
             IN  IF SubmitRejected(form)
                 THEN /\ lastOp' = Op("rejected", NoRequest, NoClock, RejectReason(form))
                      /\ UNCHANGED << dataVars, formVars, currentUser, showSettingsModal,
                                      receipt, nextId, tz, currentDate, restVars, stored >>
                 ELSE handleSaveTransaction(form, now, inp)

handleDeleteTransaction ==
  /\ PageUsable
  /\ \E i \in 1..Len(transactions), confirmed \in BOOLEAN :
       /\ transactions' = IF confirmed
                          THEN SelectSeq(transactions, LAMBDA t : t.id # transactions[i].id)
                          ELSE transactions
       /\ lastOp' = OtherOp
  /\ UNCHANGED << cards, accounts, formVars, currentUser, showSettingsModal, receipt, nextId, tz, currentDate, restVars >>
  /\ Saved

\* a faulty toggle that only ever marks a record as done; C11 must not
\* survive it
ToggledStatusDone(st) == COMPLETED

ToggledStatus(st) == IF st = PENDING THEN COMPLETED ELSE PENDING

\* prev.transactions.map(...) of handleToggleStatus
ToggleStatusOf(txs, id) ==
  [j \in 1..Len(txs) |->
     IF txs[j].id = id THEN [txs[j] EXCEPT !.status = ToggledStatus(@)] ELSE txs[j]]

handleToggleStatus ==
  /\ PageUsable
  /\ \E i \in 1..Len(transactions) :
       /\ transactions' = ToggleStatusOf(transactions, transactions[i].id)
       /\ lastOp' = OtherOp
  /\ UNCHANGED << cards, accounts, formVars, currentUser, showSettingsModal, receipt, nextId, tz, currentDate, restVars >>
  /\ Saved

\* the settings button of the header, and the settings modal's onClose
OpenSettings ==
  /\ PageUsable
  /\ showSettingsModal' = TRUE
  /\ lastOp' = OtherOp
  /\ UNCHANGED << dataVars, formVars, currentUser, receipt, nextId, tz, currentDate, restVars, stored >>

CloseSettings ==
  /\ SettingsUsable
  /\ showSettingsModal' = FALSE
  /\ lastOp' = OtherOp
  /\ UNCHANGED << dataVars, formVars, currentUser, receipt, nextId, tz, currentDate, restVars, stored >>

\* the month arrows of the header: setCurrentDate(subMonths(currentDate, 1))
\* and setCurrentDate(addMonths(currentDate, 1))
MonthIndex(dt) == dt.y * 12 + dt.m
MonthsFromToday(dt) == MonthIndex(dt) - MonthIndex(CHOOSE now \in Clock : TRUE)

PrevMonth ==
  /\ PageUsable
  /\ MonthsFromToday(currentDate) > 0 - MaxMonthsBack
  /\ currentDate' = addMonths(currentDate, 0 - 1)
  /\ lastOp' = OtherOp
  /\ UNCHANGED << dataVars, formVars, currentUser, showSettingsModal, receipt, nextId, tz, restVars, stored >>

NextMonth ==
  /\ PageUsable
  /\ MonthsFromToday(currentDate) < MaxMonthsAhead
  /\ currentDate' = addMonths(currentDate, 1)
  /\ lastOp' = OtherOp
  /\ UNCHANGED << dataVars, formVars, currentUser, showSettingsModal, receipt, nextId, tz, restVars, stored >>

\* SettingsForm.addCard / deleteCard / addBank / deleteBank
addCard(inp) ==
  /\ SettingsUsable
  /\ Len(cards) < MaxCards
  /\ nextId.card < FirstId.card + MaxCardIds
  /\ \E c \in inp.catalog :
       cards' = Append(cards, [id |-> nextId.card, limit |-> c.limit,
                               closingDay |-> c.closingDay,
                               dueDay |-> c.dueDay, last4Digits |-> c.last4Digits])
  /\ nextId' = [nextId EXCEPT !.card = @ + 1]
  /\ lastOp' = OtherOp
  /\ UNCHANGED << transactions, accounts, formVars, currentUser, showSettingsModal, receipt, tz, currentDate, restVars >>
  /\ Saved

\* a faulty deleteCard that also drops the records of the card; C24 must
\* not survive it
deleteCardCascade ==
  /\ SettingsUsable
  /\ \E i \in 1..Len(cards) :
       /\ cards' = SelectSeq(cards, LAMBDA c : c.id # cards[i].id)
       /\ transactions' = SelectSeq(transactions, LAMBDA t : t.cardId # cards[i].id)
       /\ lastOp' = OtherOp
  /\ UNCHANGED << accounts, formVars, currentUser, showSettingsModal,
                  receipt, nextId, tz, currentDate, restVars >>
  /\ Saved

deleteCard ==
  /\ SettingsUsable
  /\ \E i \in 1..Len(cards) :
       /\ cards' = SelectSeq(cards, LAMBDA c : c.id # cards[i].id)
       /\ lastOp' = OtherOp
  /\ UNCHANGED << transactions, accounts, formVars, currentUser, showSettingsModal,
                  receipt, nextId, tz, currentDate, restVars >>
  /\ Saved

addBank ==
  /\ SettingsUsable
  /\ Len(accounts) < MaxAccounts
  /\ nextId.account < FirstId.account + MaxAccountIds
  /\ accounts' = Append(accounts, [id |-> nextId.account])
  /\ nextId' = [nextId EXCEPT !.account = @ + 1]
  /\ lastOp' = OtherOp
  /\ UNCHANGED << transactions, cards, formVars, currentUser, showSettingsModal, receipt, tz, currentDate, restVars >>
  /\ Saved

deleteBank ==
  /\ SettingsUsable
  /\ \E i \in 1..Len(accounts) :
       /\ accounts' = SelectSeq(accounts, LAMBDA a : a.id # accounts[i].id)
       /\ lastOp' = OtherOp
  /\ UNCHANGED << transactions, cards, formVars, currentUser, showSettingsModal,
                  receipt, nextId, tz, currentDate, restVars >>
  /\ Saved

\* ------------------------------------------------------------------------
\* handleReceiptUpload (src/App.tsx 349-395)
\* ------------------------------------------------------------------------

\* the camera input's onChange: the FileReader starts; the callback closes
\* over the data of this render
ReceiptUpload ==
  /\ PageUsable
  /\ receipt.pc = "idle"
  /\ receipt' = [pc |-> "reading", cards |-> cards]
  /\ lastOp' = OtherOp
  /\ UNCHANGED << dataVars, formVars, currentUser, showSettingsModal, nextId, tz, currentDate, restVars, stored >>

\* reader.onload up to the await: the overlay goes up
ReceiptLoaded ==
  /\ receipt.pc = "reading"
  /\ receipt' = [receipt EXCEPT !.pc = "analyzing"]
  /\ lastOp' = OtherOp
  /\ UNCHANGED << dataVars, formVars, currentUser, showSettingsModal, nextId, tz, currentDate, restVars, stored >>

\* s.endsWith(suffix)
EndsWith(str, suffix) ==
  /\ Len(suffix) <= Len(str)
  /\ SubSeq(str, Len(str) - Len(suffix) + 1, Len(str)) = suffix

\* data.cards.find(c => c.last4Digits && c.last4Digits.endsWith(digits))
RECURSIVE MatchCardFrom(_, _, _)
MatchCardFrom(cs, digits, i) ==
  IF i > Len(cs) THEN Undefined
  ELSE IF cs[i].last4Digits # << >> /\ EndsWith(cs[i].last4Digits, digits) THEN cs[i].id
  ELSE MatchCardFrom(cs, digits, i + 1)

\* what parseReceiptImage can resolve to, besides null
Extracted ==
  { [description |-> Description("Mercado", 0, 0), amount |-> Num(90),
     date |-> YMD(2024, 1, 26), type |-> EXPENSE, paymentMethod |-> CREDIT_CARD,
     last4Digits |-> <<3, 4>>] }

\* the object handed to setEditingTransaction
ReceiptPrefill(x, cs, now, zone) ==
  [BlankTransaction EXCEPT
     !.description   = x.description,
     !.amount        = x.amount,
     !.date          = IF TruthyString(x.date) THEN x.date ELSE toISOString(now, zone),
     !.type          = IF x.type = INCOME THEN INCOME ELSE EXPENSE,
     !.paymentMethod = IF x.paymentMethod = CREDIT_CARD THEN CREDIT_CARD ELSE CASH_DEBIT,
     !.cardId        = IF x.last4Digits # << >>
                       THEN MatchCardFrom(cs, x.last4Digits, 1) ELSE Undefined,
     !.status        = COMPLETED]

\* the continuation after the await, with its finally block
ReceiptParsed(inp) ==
  /\ receipt.pc = "analyzing"
  /\ \E now \in inp.clock :
       \/ \E x \in Extracted :
            LET ed == Editing(ReceiptPrefill(x, receipt.cards, now, tz))
            IN  /\ editingTransaction' = ed
                /\ formInit' = IF showAddModal THEN formInit
                               ELSE InitialForm(ed, cards, accounts, now, tz)
                /\ lastOp' = OtherOp
       \/ /\ editingTransaction' = NullEditing
          /\ formInit' = IF showAddModal THEN formInit
                         ELSE InitialForm(NullEditing, cards, accounts, now, tz)
          /\ lastOp' = OtherOp
  /\ showAddModal' = TRUE
  /\ receipt' = Idle
  /\ UNCHANGED << dataVars, currentUser, showSettingsModal, nextId, tz, currentDate, restVars, stored >>

\* ------------------------------------------------------------------------
\* The categories of the settings form (src/App.tsx 1426-1428)
\* ------------------------------------------------------------------------

\* the categories whose trash button is used: cat_1
CategoryPicks == {301}

deleteCategory ==
  /\ SettingsUsable
  /\ \E i \in 1..Len(categories) :
       /\ categories[i].id \in CategoryPicks
       /\ categories' = SelectSeq(categories, LAMBDA c : c.id # categories[i].id)
  /\ lastOp' = OtherOp
  /\ UNCHANGED << dataVars, formVars, currentUser, showSettingsModal, receipt, nextId,
                  tz, currentDate, loadPc, advice >>
  /\ Saved

\* ------------------------------------------------------------------------
\* The stored document: the load effect and a restart of the page
\* (src/App.tsx 129-173)
\* ------------------------------------------------------------------------

\* localStorage.getItem returned null
NoDocument ==
  [exists |-> FALSE, byApp |-> FALSE,
   hasTransactions |-> FALSE, transactions |-> << >>,
   cards |-> << >>, accounts |-> << >>,
   hasCategories |-> FALSE, categories |-> << >>]

\* a stored status that is absent
NoStatus == ""

\* the migration of one stored record (152-157)
MigrateTransaction(t) ==
  [t EXCEPT !.status = IF t.status # NoStatus THEN t.status ELSE COMPLETED,
            !.categoryId = IF Truthy(t.categoryId) THEN t.categoryId ELSE Undefined,
            !.purchaseDate = IF TruthyString(t.purchaseDate) THEN t.purchaseDate ELSE t.date]

MigrateTransactions(txs) == [i \in 1..Len(txs) |-> MigrateTransaction(txs[i])]

MigrateCategories(doc) ==
  IF doc.hasCategories /\ Len(doc.categories) > 0 THEN doc.categories ELSE DefaultCategories

\* the load effect, with the save effect of the same mount after it and the
\* one of the render that follows: the first sees isLoaded false, the second
\* writes the loaded state.  parsed.transactions.map throws when the document
\* has no transactions, and nothing after it runs
\* a faulty start in which the save effect writes the state of the first
\* render before the stored document is read; C30 must not survive it
LoadEffectAfterSave ==
  /\ loadPc = "mounted"
  /\ loadPc' = "loaded"
  /\ UNCHANGED << dataVars, categories >>
  /\ Saved
  /\ lastOp' = OtherOp
  /\ UNCHANGED << formVars, currentUser, showSettingsModal, receipt, nextId, tz,
                  currentDate, advice >>

LoadEffect ==
  /\ loadPc = "mounted"
  /\ IF ~stored.exists
     THEN /\ loadPc' = "loaded"
          /\ UNCHANGED << dataVars, categories >>
          /\ Saved
     ELSE IF ~stored.hasTransactions
     THEN /\ loadPc' = "failed"
          /\ UNCHANGED << dataVars, categories, stored >>
     ELSE /\ transactions' = MigrateTransactions(stored.transactions)
          /\ cards' = stored.cards
          /\ accounts' = stored.accounts
          /\ categories' = MigrateCategories(stored)
          /\ loadPc' = "loaded"
          /\ Saved
  /\ lastOp' = OtherOp
  /\ UNCHANGED << formVars, currentUser, showSettingsModal, receipt, nextId, tz,
                  currentDate, advice >>

\* the page is closed and opened again: every useState starts over, the
\* stored document stays
Reload ==
  /\ loadPc # "mounted"
  /\ transactions' = << >>
  /\ cards' = << >>
  /\ accounts' = << >>
  /\ categories' = DefaultCategories
  /\ loadPc' = "mounted"
  /\ currentUser' = NoUser
  /\ showAddModal' = FALSE
  /\ showSettingsModal' = FALSE
  /\ editingTransaction' = NullEditing
  /\ formInit' = NoForm
  /\ receipt' = Idle
  /\ advice' = NoAdvice
  /\ \E now \in Clock : currentDate' = now
  /\ lastOp' = OtherOp
  /\ UNCHANGED << stored, nextId, tz >>

\* ------------------------------------------------------------------------
\* handleAdvice (src/App.tsx 337-347) and getFinancialAdvice
\* (src/services/geminiService.ts 9-58)
\* ------------------------------------------------------------------------

\* what the promise of getFinancialAdvice resolves to: the text of the
\* response, the message for an empty response, the message of the catch
\* block, the message for a missing API key
AdviceOutcomes == { "advice", "unavailable", "error", "nokey" }

\* up to the await; the button is disabled while isLoadingAdvice
handleAdvice ==
  /\ PageUsable
  /\ ~advice.loading
  /\ advice' = [advice EXCEPT !.loading = TRUE, !.pending = TRUE]
  /\ lastOp' = OtherOp
  /\ UNCHANGED << dataVars, formVars, currentUser, showSettingsModal, receipt, nextId,
                  tz, currentDate, categories, loadPc, stored >>

\* a faulty continuation that leaves the loading flag up when the request
\* failed; C26 must not survive it
AdviceResolvedNoReset ==
  /\ advice.pending
  /\ \E text \in AdviceOutcomes :
       advice' = [text |-> text, loading |-> text = "error", pending |-> FALSE]
  /\ lastOp' = OtherOp
  /\ UNCHANGED << dataVars, formVars, currentUser, showSettingsModal, receipt, nextId,
                  tz, currentDate, categories, loadPc, stored >>

\* the continuation after the await
AdviceResolved ==
  /\ advice.pending
  /\ \E text \in AdviceOutcomes :
       advice' = [text |-> text, loading |-> FALSE, pending |-> FALSE]
  /\ lastOp' = OtherOp
  /\ UNCHANGED << dataVars, formVars, currentUser, showSettingsModal, receipt, nextId,
                  tz, currentDate, categories, loadPc, stored >>

\* the page and the entry form
Next ==
  \/ Login({JEAN})
  \/ OpenAdd(Inputs)
  \/ CloseAdd
  \/ handleEditClick(Inputs)
  \/ handleSubmit(Inputs)
  \/ handleDeleteTransaction
  \/ handleToggleStatus

Spec == Init /\ [][Next]_vars

\* the settings form and the receipt analysis around the entry form
SettingsInputs ==
  [Inputs EXCEPT !.maxTx = MaxSettingsTx, !.maxIds = MaxSettingsTx + 1]

NextSettings ==
  \/ Login({JEAN})
  \/ OpenAdd(SettingsInputs)
  \/ CloseAdd
  \/ handleSubmit(SettingsInputs)
  \/ OpenSettings
  \/ CloseSettings
  \/ addCard(SettingsInputs)
  \/ deleteCard
  \/ addBank
  \/ deleteBank
  \/ ReceiptUpload
  \/ ReceiptLoaded
  \/ ReceiptParsed(SettingsInputs)

SpecSettings == InitFresh /\ [][NextSettings]_vars

\* ------------------------------------------------------------------------
\* One purchase, over the calendar: the entry form has just been mounted,
\* by the + button or by a receipt analysis, and is submitted once
\* ------------------------------------------------------------------------

AllocCatalog ==
  { [limit |-> Num(100), closingDay |-> c, dueDay |-> u, last4Digits |-> <<1, 2, 3, 4>>] :
      c \in {10, 25, 31}, u \in {5, 31} }

AllocDates ==
  { EmptyString, YMD(2023, 12, 31), YMD(2024, 1, 9), YMD(2024, 1, 10), YMD(2024, 1, 11),
    YMD(2024, 1, 26), YMD(2024, 1, 31), YMD(2024, 2, 29) }

AllocInputs ==
  [desc |-> { Description("Mercado", 0, 0) },
   amount |-> { AmountText(Num(300)), AmountText(Num(900)), AmountText(Num(50)) },
   date |-> AllocDates,
   cat |-> {301}, inst |-> 1..AllocInstallments, mode |-> {FALSE}, pick |-> {1, 2, 3},
   clock |-> Clock, catalog |-> AllocCatalog,
   keep |-> FALSE, maxTx |-> AllocInstallments, maxIds |-> AllocInstallments + 1]

InitAlloc ==
  /\ transactions = << >>
  /\ \E c \in AllocCatalog :
       cards = << [id |-> FirstId.card, limit |-> c.limit, closingDay |-> c.closingDay,
                   dueDay |-> c.dueDay, last4Digits |-> c.last4Digits] >>
  /\ accounts = << HomeAccount >>
  /\ nextId = [tx |-> FirstId.tx, card |-> FirstId.card + 1, account |-> FirstId.account + 1]
  /\ currentUser \in Users
  /\ tz \in Zones
  /\ showAddModal = TRUE
  /\ showSettingsModal = FALSE
  /\ receipt = Idle
  /\ \E now \in Clock :
       /\ editingTransaction \in
            {NullEditing} \cup {Editing(ReceiptPrefill(x, cards, now, tz)) : x \in Extracted}
       /\ formInit = InitialForm(editingTransaction, cards, accounts, now, tz)
  /\ currentDate \in Clock
  /\ categories = DefaultCategories
  /\ loadPc = "loaded"
  /\ stored = Stringify(transactions, cards, accounts, categories)
  /\ advice = NoAdvice
  /\ lastOp = OtherOp

NextAlloc == handleSubmit(AllocInputs)

SpecAlloc == InitAlloc /\ [][NextAlloc]_vars

\* The ledger seen through the month pages: amounts of any sign, the month
\* arrows, and an account registered after records were entered
ViewAmounts == { AmountText(Num(90)), AmountText(Num(0 - 5)) }

ViewInputs ==
  [Inputs EXCEPT !.amount = ViewAmounts, !.maxTx = MaxViewTx, !.maxIds = MaxViewTx + 1]

NextView ==
  \/ Login({JEAN})
  \/ OpenAdd(ViewInputs)
  \/ CloseAdd
  \/ handleEditClick(ViewInputs)
  \/ handleSubmit(ViewInputs)
  \/ handleToggleStatus
  \/ OpenSettings
  \/ CloseSettings
  \/ addBank
  \/ PrevMonth
  \/ NextMonth

\* a start of the app on a stored document with a card and no account
InitView == Init /\ Len(cards) = 1 /\ accounts = << >>

SpecView == InitView /\ [][NextView]_vars

\* ------------------------------------------------------------------------
\* The page from its mount: the stored document is loaded, the ledger and
\* the settings are used, and the page is restarted
\* ------------------------------------------------------------------------

\* a record written by a version that knew neither status nor purchaseDate
LegacyRecord ==
  [BlankTransaction EXCEPT
     !.id = 51, !.description = Description("Aluguel", 0, 0), !.amount = Num(50),
     !.status = NoStatus, !.date = [k |-> "Z", y |-> 2024, m |-> 1, d |-> 10, h |-> 3],
     !.user = JEAN, !.accountId = FirstId.account]

\* the one installment of a card purchase of 2024-01-26, as the add branch
\* writes it
CardRecord ==
  [BlankTransaction EXCEPT
     !.id = 52, !.description = Description("Mercado", 0, 0), !.amount = Num(90),
     !.status = PENDING, !.date = [k |-> "Z", y |-> 2024, m |-> 2, d |-> 5, h |-> 3],
     !.purchaseDate = [k |-> "Z", y |-> 2024, m |-> 1, d |-> 26, h |-> 3],
     !.user = JEAN, !.paymentMethod = CREDIT_CARD, !.cardId = FirstId.card,
     !.categoryId = 301,
     !.installments = [current |-> 1, total |-> 1, originalTransactionId |-> 53]]

\* what the load effect may find under STORAGE_KEY: nothing, a document of
\* an older version without categories, a document without its
\* transactions, a document of this version with one category left
StoredDocuments ==
  { NoDocument,
    [NoDocument EXCEPT !.exists = TRUE, !.hasTransactions = TRUE,
                       !.transactions = << LegacyRecord >>,
                       !.cards = << HomeCard >>, !.accounts = << HomeAccount >>],
    [NoDocument EXCEPT !.exists = TRUE, !.cards = << HomeCard >>,
                       !.accounts = << HomeAccount >>],
    [Stringify(<< CardRecord >>, << HomeCard >>, << HomeAccount >>,
               << DefaultCategories[1] >>) EXCEPT !.byApp = FALSE] }

StoreInputs ==
  [Inputs EXCEPT !.desc = { Description("Mercado", 0, 0) },
                 !.amount = { AmountText(Num(90)) },
                 !.inst = {2},
                 !.maxTx = MaxStoreTx, !.maxIds = MaxStoreTx + 1]

InitStore ==
  /\ transactions = << >>
  /\ cards = << >>
  /\ accounts = << >>
  /\ categories = DefaultCategories
  /\ loadPc = "mounted"
  /\ stored \in StoredDocuments
  /\ currentUser = NoUser
  /\ showAddModal = FALSE
  /\ showSettingsModal = FALSE
  /\ editingTransaction = NullEditing
  /\ formInit = NoForm
  /\ receipt = Idle
  /\ advice = NoAdvice
  /\ nextId = [FirstId EXCEPT !.card = @ + 1, !.account = @ + 1]
  /\ tz = HomeZone
  /\ currentDate \in Clock
  /\ lastOp = OtherOp

NextStore ==
  \/ LoadEffect
  \/ Reload
  \/ Login({JEAN})
  \/ OpenAdd(StoreInputs)
  \/ CloseAdd
  \/ handleEditClick(StoreInputs)
  \/ handleSubmit(StoreInputs)
  \/ handleDeleteTransaction
  \/ handleToggleStatus
  \/ OpenSettings
  \/ CloseSettings
  \/ deleteCard
  \/ deleteBank
  \/ deleteCategory

SpecStore == InitStore /\ [][NextStore]_vars

\* ------------------------------------------------------------------------
\* The settings used on a ledger whose records name a card, an account and
\* a category
\* ------------------------------------------------------------------------

CatalogInputs ==
  [Inputs EXCEPT !.desc = { Description("Mercado", 0, 0) },
                 !.amount = { AmountText(Num(90)) }, !.inst = {1},
                 !.maxTx = MaxCatalogTx, !.maxIds = MaxCatalogTx]

InitCatalog ==
  /\ transactions = MigrateTransactions(<< CardRecord, LegacyRecord >>)
  /\ cards = << HomeCard >>
  /\ accounts = << HomeAccount >>
  /\ categories = DefaultCategories
  /\ loadPc = "loaded"
  /\ stored = Stringify(transactions, cards, accounts, categories)
  /\ currentUser = NoUser
  /\ showAddModal = FALSE
  /\ showSettingsModal = FALSE
  /\ editingTransaction = NullEditing
  /\ formInit = NoForm
  /\ receipt = Idle
  /\ advice = NoAdvice
  /\ nextId = [FirstId EXCEPT !.card = @ + 1, !.account = @ + 1]
  /\ tz = HomeZone
  /\ currentDate \in Clock
  /\ lastOp = OtherOp

NextCatalog ==
  \/ Login({JEAN})
  \/ CloseAdd
  \/ handleSubmit(CatalogInputs)
  \/ OpenSettings
  \/ CloseSettings
  \/ deleteCard
  \/ deleteBank
  \/ deleteCategory
  \/ ReceiptUpload
  \/ ReceiptLoaded
  \/ ReceiptParsed(CatalogInputs)
  \/ PrevMonth
  \/ NextMonth

SpecCatalog == InitCatalog /\ [][NextCatalog]_vars

\* ------------------------------------------------------------------------
\* The page with its two external requests: advice and a receipt analysis
\* in flight while the ledger is used
\* ------------------------------------------------------------------------

AssistInputs ==
  [Inputs EXCEPT !.desc = { Description("Mercado", 0, 0) },
                 !.maxTx = MaxAssistTx, !.maxIds = MaxAssistTx + 1]

NextAssist ==
  \/ Login({JEAN})
  \/ OpenAdd(AssistInputs)
  \/ CloseAdd
  \/ handleSubmit(AssistInputs)
  \/ handleToggleStatus
  \/ handleAdvice
  \/ AdviceResolved
  \/ ReceiptUpload
  \/ ReceiptLoaded
  \/ ReceiptParsed(AssistInputs)

SpecAssist == InitView /\ [][NextAssist]_vars

\* ------------------------------------------------------------------------
\* Properties of handleSaveTransaction in add mode
\* ------------------------------------------------------------------------

\* the request the last add was given and the records it appended
IsAdd   == lastOp.kind = "add"
Req     == lastOp.req
Added   == SubSeq(transactions, lastOp.arg + 1, Len(transactions))
CardListed(cs, id) == \E i \in 1..Len(cs) : cs[i].id = id
ReqCard == cards[CHOOSE i \in 1..Len(cards) : cards[i].id = Req.cardId]
IsCreditRequest == IsAdd /\ Req.paymentMethod = CREDIT_CARD
IsCreditAdd == IsCreditRequest /\ CardListed(cards, Req.cardId)
HasOverride == TruthyString(Req.targetInvoiceDate)

\* a calendar day, a calendar month and the month after it
Day(y, m, d) == [y |-> y, m |-> m, d |-> d]
Month(y, m) == [y |-> y, m |-> m]
MonthAfter(mo) == IF mo.m = 12 THEN Month(mo.y + 1, 1) ELSE Month(mo.y, mo.m + 1)
RECURSIVE MonthsAfter(_, _)
MonthsAfter(mo, n) == IF n = 0 THEN mo ELSE MonthsAfter(MonthAfter(mo), n - 1)
MonthOf(day) == Month(day.y, day.m)

\* the purchase day of the request: the date entered, today when the date
\* field was left empty
Purchase ==
  IF TruthyString(Req.date) THEN Day(Req.date.y, Req.date.m, Req.date.d)
  ELSE Day(lastOp.now.y, lastOp.now.m, lastOp.now.d)

\* a stored date string as the app reads it back: the local calendar day
LocalDay(s) == LET dt == parseISO(s, tz) IN Day(dt.y, dt.m, dt.d)

\* the invoice month the billing cycle assigns to a purchase day
CycleMonth(p, closingDay) ==
  IF p.d >= closingDay THEN MonthAfter(MonthOf(p)) ELSE MonthOf(p)

C2_RecordCount ==
  [][ (lastOp'.kind = "add" /\ lastOp'.req.paymentMethod = CREDIT_CARD
         /\ CardListed(cards, lastOp'.req.cardId))
      => /\ Len(transactions') = Len(transactions) + lastOp'.req.installmentCount
         /\ SubSeq(transactions', 1, Len(transactions)) = transactions ]_vars

\* two installments were appended to a ledger that held a record
C2_Witness ==
  /\ IsCreditAdd
  /\ lastOp.arg >= 1
  /\ Req.installmentCount = 2
  /\ Len(Added) = 2

\* the invoice month a card purchase starts in: the override when the
\* request carries one, the month the billing cycle assigns otherwise
StartMonth ==
  IF HasOverride THEN MonthOf(LocalDay(Req.targetInvoiceDate))
  ELSE CycleMonth(Purchase, ReqCard.closingDay)

\* C3: installment i (0-based) of a card purchase is due in calendar month
\* S + i, S the starting invoice month, on the card's due day, for every due
\* day 1..31.
C3_DueDates ==
  IsCreditAdd =>
    \A i \in 1..Len(Added) :
      LET mo == MonthsAfter(StartMonth, i - 1)
      IN  LocalDay(Added[i].date) = Day(mo.y, mo.m, ReqCard.dueDay)

\* C4: a card purchase whose cardId names no card of the current card list
\* adds nothing, and a card purchase without any cardId is turned away by
\* the form: either way the ledger is what it was.
C4_InvalidCard ==
  [][ ( \/ /\ lastOp'.kind = "add"
           /\ lastOp'.req.paymentMethod = CREDIT_CARD
           /\ ~CardListed(cards, lastOp'.req.cardId)
        \/ /\ lastOp'.kind = "rejected"
           /\ lastOp'.arg = 2 )
      => transactions' = transactions ]_vars

\* a card purchase was saved for a card deleted while the form was open,
\* with another card in the list
C4_Witness ==
  /\ IsCreditRequest
  /\ Truthy(Req.cardId)
  /\ ~CardListed(cards, Req.cardId)
  /\ Len(cards) >= 1
  /\ Len(transactions) = lastOp.arg

\* C5: an add paid in cash or debit, or an income, appends one record,
\* whatever installment count, amount mode and invoice the form held: no
\* installments, paymentMethod CASH_DEBIT, the amount entered, and date and
\* purchaseDate both the purchase date entered.
C5_CashPath ==
  (IsAdd /\ (Req.paymentMethod = CASH_DEBIT \/ Req.type = INCOME)) =>
    /\ Len(Added) = 1
    /\ Added[1].installments = NoInstallments
    /\ Added[1].paymentMethod = CASH_DEBIT
    /\ Added[1].amount = Req.amount
    /\ Added[1].date = Added[1].purchaseDate
    /\ LocalDay(Added[1].date) = Purchase
    /\ TruthyString(Req.date) => parseISO(Added[1].date, tz).h = 0

\* an income was saved from a form left on credit card with three
\* installments, per-installment amounts
C5_Witness ==
  /\ IsAdd
  /\ Req.type = INCOME
  /\ Req.installmentCount = 3
  /\ ~Req.isTotalValue
  /\ TruthyString(Req.date)
  /\ Len(Added) = 1

RECURSIVE SumAmounts(_)
SumAmounts(rs) ==
  IF rs = << >> THEN Num(0) ELSE FracAdd(rs[1].amount, SumAmounts(Tail(rs)))

\* p = t / n, for amounts p and t
IsQuotient(p, t, n) == p.n * t.d * n = t.n * p.d

\* C6: a card purchase of total T in N installments gives every installment
\* the amount T / N; when N divides T the amounts are that whole number and
\* sum to T, and when it does not every installment still has the same
\* fractional amount.
C6_TotalSplit ==
  (IsCreditAdd /\ Req.isTotalValue) =>
    LET T == Req.amount
        N == Req.installmentCount
    IN  /\ Len(Added) = N
        /\ \A i \in 1..Len(Added) : IsQuotient(Added[i].amount, T, N)
        /\ \A i, j \in 1..Len(Added) : Added[i].amount = Added[j].amount
        /\ (T.d = 1 /\ T.n % N = 0) =>
             /\ \A i \in 1..Len(Added) : Added[i].amount = Num(T.n \div N)
             /\ SumAmounts(Added) = T
        /\ (T.d = 1 /\ T.n % N # 0) =>
             \A i \in 1..Len(Added) : Added[i].amount.d # 1

\* 300 in three installments gave three records of 100
C6_Witness ==
  /\ IsCreditAdd /\ Req.isTotalValue
  /\ Req.amount = Num(300)
  /\ Req.installmentCount = 3
  /\ Len(Added) = 3
  /\ Added[3].amount = Num(100)

\* C7: a card purchase whose amount A is marked as the amount of each
\* installment gives each of the N records the amount A, A * N in all.
C7_PerInstallment ==
  (IsCreditAdd /\ ~Req.isTotalValue) =>
    /\ Len(Added) = Req.installmentCount
    /\ \A i \in 1..Len(Added) : Added[i].amount = Req.amount
    /\ Req.amount.d = 1 =>
         SumAmounts(Added) = Num(Req.amount.n * Req.installmentCount)

\* 50 per installment in four installments gave four records of 50
C7_Witness ==
  /\ IsCreditAdd /\ ~Req.isTotalValue
  /\ Req.amount = Num(50)
  /\ Req.installmentCount = 4
  /\ Len(Added) = 4
  /\ Added[4].amount = Num(50)

\* the purchase of the end-to-end scenario
IsScenario ==
  /\ IsCreditAdd /\ ~HasOverride
  /\ ReqCard.closingDay = 25 /\ ReqCard.dueDay = 5
  /\ Purchase = Day(2024, 1, 26)
  /\ Req.amount = Num(900)
  /\ Req.installmentCount = 3
  /\ Req.isTotalValue

\* C8: on a card closing on the 25th and due on the 5th, a purchase of
\* 2024-01-26 of 900 in 3 installments, total amount, no invoice chosen,
\* adds three records due 2024-02-05, 2024-03-05 and 2024-04-05, 300 each,
\* installments 1/3, 2/3, 3/3 in this order.
C8_Scenario ==
  IsScenario =>
    /\ Len(Added) = 3
    /\ LocalDay(Added[1].date) = Day(2024, 2, 5)
    /\ LocalDay(Added[2].date) = Day(2024, 3, 5)
    /\ LocalDay(Added[3].date) = Day(2024, 4, 5)
    /\ \A i \in 1..3 :
         /\ Added[i].amount = Num(300)
         /\ Added[i].installments.current = i
         /\ Added[i].installments.total = 3

C8_Witness == IsScenario /\ Len(Added) = 3 /\ lastOp.arg = 0

\* C9: with an invoice chosen, the first installment is due in the chosen
\* month on the card's due day, whatever the purchase date and the closing
\* day, and purchaseDate is the purchase date entered.
C9_Override ==
  (IsCreditAdd /\ HasOverride) =>
    LET O == MonthOf(LocalDay(Req.targetInvoiceDate))
    IN  /\ Len(Added) >= 1
        /\ LocalDay(Added[1].date) = Day(O.y, O.m, ReqCard.dueDay)
        /\ \A i \in 1..Len(Added) : LocalDay(Added[i].purchaseDate) = Purchase

\* C10: the N records of one card purchase are numbered 1..N in ledger
\* order with total N, are expenses paid by credit card, and share the
\* purchase date, the card, the category, the logged-in user and the status
\* of the request.
C10_InstallmentRecords ==
  IsCreditAdd =>
    /\ Len(Added) = Req.installmentCount
    /\ \A i \in 1..Len(Added) :
         /\ Added[i].installments.current = i
         /\ Added[i].installments.total = Req.installmentCount
         /\ Added[i].type = EXPENSE
         /\ Added[i].paymentMethod = CREDIT_CARD
         /\ Added[i].purchaseDate = Added[1].purchaseDate
         /\ LocalDay(Added[i].purchaseDate) = Purchase
         /\ Added[i].cardId = Req.cardId
         /\ Added[i].categoryId = Req.categoryId
         /\ Added[i].user = currentUser
         /\ Added[i].status = Req.status

\* four pending installments were saved by Jean
C10_Witness ==
  /\ IsCreditAdd
  /\ Req.installmentCount = 4
  /\ Len(Added) = 4
  /\ Req.status = PENDING
  /\ currentUser = JEAN
  /\ Added[4].installments.current = 4

\* ------------------------------------------------------------------------
\* Properties of the ledger under toggle, edit and repeated saves
\* ------------------------------------------------------------------------

\* the other status
OtherStatus(st) == IF st = COMPLETED THEN PENDING ELSE COMPLETED

\* C11: a status toggle flips the status of one record between PENDING and
\* COMPLETED and changes nothing else: the other fields of that record, every
\* other record (its sibling installments too) and the number of records
\* stay, and toggling the same record again gives the ledger back.
C11_ToggleIsolation ==
  [][ handleToggleStatus =>
        /\ Len(transactions') = Len(transactions)
        /\ \E x \in 1..Len(transactions) :
             /\ transactions'[x].status = OtherStatus(transactions[x].status)
             /\ transactions' = [transactions EXCEPT ![x].status = transactions'[x].status]
             /\ ToggleStatusOf(transactions', transactions[x].id) = transactions ]_vars

\* two installments of one purchase, neither ever edited, differ in status
C11_Witness ==
  \E i, j \in 1..Len(transactions) :
    /\ i # j
    /\ transactions[i].installments.total = 2
    /\ transactions[j].installments.total = 2
    /\ transactions[i].purchaseDate = transactions[j].purchaseDate
    /\ transactions[i].cardId = transactions[j].cardId
    /\ ~transactions[i].formKeys.present
    /\ ~transactions[j].formKeys.present
    /\ transactions[i].status # transactions[j].status

\* the sum of the amounts of the records at the positions S of rs
RECURSIVE AmountSum(_, _)
AmountSum(rs, S) ==
  IF S = {} THEN Num(0)
  ELSE LET i == CHOOSE k \in S : TRUE
       IN  FracAdd(rs[i].amount, AmountSum(rs, S \ {i}))

\* the positions of the records whose date falls in the displayed month
InMonthM ==
  { i \in 1..Len(transactions) :
      MonthOf(LocalDay(transactions[i].date)) = Month(currentDate.y, currentDate.m) }

\* C12: over the records dated in the displayed month, incomeReal and
\* expenseReal sum the COMPLETED incomes and expenses, balanceReal is their
\* difference, balanceProjected is all incomes minus all expenses whatever
\* the status, and computing the summary again gives the same values.
C12_MonthlySummary ==
  LET done    == { i \in InMonthM : transactions[i].status = COMPLETED }
      incomes == { i \in InMonthM : transactions[i].type = INCOME }
      expenses == { i \in InMonthM : transactions[i].type = EXPENSE }
  IN  /\ summary.incomeReal = AmountSum(transactions, incomes \cap done)
      /\ summary.expenseReal = AmountSum(transactions, expenses \cap done)
      /\ summary.balanceReal = FracSub(summary.incomeReal, summary.expenseReal)
      /\ summary.balanceProjected =
           FracSub(AmountSum(transactions, incomes), AmountSum(transactions, expenses))
      /\ Summary(CurrentMonthTransactions(transactions, currentDate, tz)) = summary

\* February is displayed: of a purchase of 90 in two installments the one
\* due in February, done, is summed; the one due in March, pending, is not
C12_Witness ==
  /\ currentDate.m = 2
  /\ Len(transactions) = 2
  /\ Cardinality(InMonthM) = 1
  /\ \E i \in InMonthM : transactions[i].status = COMPLETED
  /\ \E i \in 1..2 : i \notin InMonthM /\ transactions[i].status = PENDING
  /\ summary.expenseReal = Num(45)
  /\ summary.balanceReal = Num(0 - 45)

\* a record without its identifiers
Content(r) == [r EXCEPT !.id = Undefined, !.installments.originalTransactionId = Undefined]

\* how many records a request adds, whatever the ledger holds
RecordsOf(req, cs) ==
  IF req.paymentMethod = CREDIT_CARD /\ Truthy(req.cardId)
  THEN IF CardListed(cs, req.cardId) THEN req.installmentCount ELSE 0
  ELSE 1

\* C13: nothing is deduplicated: an add appends all the records of its
\* request whether or not the ledger already holds records of the same
\* content, and the identifiers of the ledger are pairwise distinct.
C13_NoDeduplication ==
  /\ \A i, j \in 1..Len(transactions) :
       i # j => transactions[i].id # transactions[j].id
  /\ IsAdd => Len(Added) = RecordsOf(Req, cards)

\* the last add appended a second copy of the records before it: same
\* content, other identifiers
C13_Witness ==
  /\ IsAdd
  /\ Len(Added) >= 1
  /\ lastOp.arg >= Len(Added)
  /\ \A k \in 1..Len(Added) :
       LET before == transactions[lastOp.arg - Len(Added) + k]
       IN  /\ Content(before) = Content(Added[k])
           /\ ~before.formKeys.present
           /\ before.id # Added[k].id

C15_AmountValidation ==
  /\ \A i \in 1..Len(transactions) : transactions[i].amount.n >= 0
  /\ IsAdd => \A i \in 1..Len(Added) : Added[i].amount.n > 0

\* C16: a record carries the installments field only when it is a card
\* record of a purchase split across more than one invoice.
C16_InstallmentsPresence ==
  \A i \in 1..Len(transactions) :
    transactions[i].installments # NoInstallments
      => /\ transactions[i].paymentMethod = CREDIT_CARD
         /\ transactions[i].installments.total > 1

\* C17: a record names a card exactly when it is paid by credit card and an
\* account exactly when it is paid by cash or debit, and every record that
\* names a card is an expense.
C17_PaymentReferences ==
  \A i \in 1..Len(transactions) :
    LET t == transactions[i]
    IN  /\ Truthy(t.cardId) <=> t.paymentMethod = CREDIT_CARD
        /\ Truthy(t.accountId) <=> t.paymentMethod = CASH_DEBIT
        /\ Truthy(t.cardId) => t.type = EXPENSE

\* C18: an edit saved through the form keeps the number of records, leaves
\* every other record as it was, and keeps the edited record's id, type,
\* paymentMethod, cardId, accountId, user and installments.
C18_EditImmutability ==
  [][ lastOp'.kind = "edit"
      => /\ Len(transactions') = Len(transactions)
         /\ \A i \in 1..Len(transactions) :
              LET t == transactions[i]
                  u == transactions'[i]
              IN  IF t.id = lastOp'.arg
                  THEN /\ u.id = t.id
                       /\ u.type = t.type
                       /\ u.paymentMethod = t.paymentMethod
                       /\ u.cardId = t.cardId
                       /\ u.accountId = t.accountId
                       /\ u.user = t.user
                       /\ u.installments = t.installments
                  ELSE u = t ]_vars

\* C19: a saved edit leaves a card record's date in the month of the invoice
\* it was allocated to, and every cash or debit record of the ledger is dated
\* on the day of its purchaseDate.
C19_AccountingDate ==
  [][ /\ lastOp'.kind = "edit"
           => \A i \in 1..Len(transactions) :
                transactions[i].paymentMethod = CREDIT_CARD
                  => MonthOf(LocalDay(transactions'[i].date))
                       = MonthOf(LocalDay(transactions[i].date))
      /\ \A i \in 1..Len(transactions') :
           transactions'[i].paymentMethod = CASH_DEBIT
             => LocalDay(transactions'[i].date) = LocalDay(transactions'[i].purchaseDate) ]_vars

\* the month a record was purchased in: that of its purchaseDate, or of its
\* date when it has none
PurchaseMonth(t) ==
  IF TruthyString(t.purchaseDate) THEN MonthOf(LocalDay(t.purchaseDate))
  ELSE MonthOf(LocalDay(t.date))

PendingInM ==
  { i \in 1..Len(transactions) :
      /\ transactions[i].status = PENDING
      /\ PurchaseMonth(transactions[i]) = Month(currentDate.y, currentDate.m) }

\* C20: the pending list holds exactly the PENDING records purchased in the
\* displayed month, each once, whatever month their accounting date is in.
C20_PendingDigest ==
  /\ Len(pendingTransactions) = Cardinality(PendingInM)
  /\ { pendingTransactions[k].id : k \in 1..Len(pendingTransactions) }
       = { transactions[i].id : i \in PendingInM }
  /\ \A k \in 1..Len(pendingTransactions) :
       \E i \in PendingInM : pendingTransactions[k] = transactions[i]

\* February is displayed and the ledger holds two PENDING installments of a
\* January purchase, one of them due in February: the list is empty
C20_Witness ==
  /\ currentDate.m = 2
  /\ Len(transactions) = 2
  /\ \A i \in 1..2 : /\ transactions[i].status = PENDING
                      /\ transactions[i].paymentMethod = CREDIT_CARD
                      /\ PurchaseMonth(transactions[i]) = Month(2024, 1)
  /\ \E i \in 1..2 : i \in InMonthM
  /\ pendingTransactions = << >>

\* the card selections of the cards page: 'ALL', a registered card, or a card
\* that records still name
CardSelections ==
  {ALL} \cup Ids(cards)
        \cup { transactions[i].cardId : i \in { j \in 1..Len(transactions) :
                                                  Truthy(transactions[j].cardId) } }

\* the records of invoice month M for selection C
InvoiceRecords(C) ==
  { i \in InMonthM :
      /\ transactions[i].type = EXPENSE
      /\ transactions[i].paymentMethod = CREDIT_CARD
      /\ (C = ALL \/ transactions[i].cardId = C) }

\* C21: with no category filter, the invoice total of the cards page for the
\* displayed month and any card selection is the sum of the amounts of the
\* EXPENSE, CREDIT_CARD records dated in that month that name the selected
\* card (any card for 'ALL').
C21_InvoiceRollup ==
  \A C \in CardSelections :
    InvoiceTotal(transactions, C, ALL, currentDate, tz)
      = AmountSum(transactions, InvoiceRecords(C))

\* February is displayed; the ledger holds an installment due in February on
\* the registered card and a cash record of another month, and the page
\* shows the installment's amount for the card and for 'ALL'
C21_Witness ==
  /\ currentDate.m = 2
  /\ Len(transactions) = 2
  /\ Len(cards) = 1
  /\ \E i, j \in 1..2 :
       /\ transactions[i].paymentMethod = CASH_DEBIT
       /\ i \notin InMonthM
       /\ InvoiceRecords(cards[1].id) = {j}
       /\ InvoiceTotal(transactions, cards[1].id, ALL, currentDate, tz) = Num(90)
       /\ InvoiceTotal(transactions, ALL, ALL, currentDate, tz) = Num(90)

\* C22: for the displayed month and any card selection, the limit-used
\* percentage lies between 0 and 100 inclusive, is rollup / limit * 100
\* whenever that lies in the range, and is 0 when the limit is 0.
C22_UtilizationClamp ==
  \A C \in CardSelections :
    LET pct    == LimitUsedPercent(transactions, cards, C, ALL, currentDate, tz)
        limit  == DisplayLimit(cards, C)
        rollup == AmountSum(transactions, InvoiceRecords(C))
    IN  /\ ~FracLess(pct, Num(0))
        /\ ~FracLess(Num(100), pct)
        /\ limit = Num(0) => pct = Num(0)
        /\ FracLess(Num(0), limit) =>
             LET raw == FracMul(FracQuot(rollup, limit), Num(100))
             IN  pct = IF FracLess(raw, Num(0)) THEN Num(0)
                       ELSE IF FracLess(Num(100), raw) THEN Num(100) ELSE raw

\* the EXPENSE, CREDIT_CARD records dated in month mo
CreditRecordsIn(mo) ==
  { i \in 1..Len(transactions) :
      /\ transactions[i].type = EXPENSE
      /\ transactions[i].paymentMethod = CREDIT_CARD
      /\ MonthOf(LocalDay(transactions[i].date)) = mo }

RECURSIVE SumTotals(_)
SumTotals(entries) ==
  IF entries = << >> THEN Num(0)
  ELSE FracAdd(entries[1].total, SumTotals(Tail(entries)))

\* C23: the forecast has 13 entries, for the displayed month and the twelve
\* after it in order; each is the sum of the EXPENSE, CREDIT_CARD records
\* dated in its month, which is the 'ALL' rollup of that month; and the 13
\* entries together never exceed the total of all CREDIT_CARD records.
C23_Forecast ==
  LET R == Month(currentDate.y, currentDate.m)
      credit == { i \in 1..Len(transactions) : transactions[i].paymentMethod = CREDIT_CARD }
  IN  /\ Len(futureInvoices) = 13
      /\ \A k \in 0..12 :
           LET e == futureInvoices[k + 1]
           IN  /\ Month(e.date.y, e.date.m) = MonthsAfter(R, k)
               /\ e.total = AmountSum(transactions, CreditRecordsIn(MonthsAfter(R, k)))
               /\ e.total = InvoiceTotal(transactions, ALL, ALL, e.date, tz)
      /\ ~FracLess(AmountSum(transactions, credit), SumTotals(futureInvoices))

\* seq without exactly one of its elements, the others in their order
OneRemoved(before, after) ==
  /\ Len(after) = Len(before) - 1
  /\ \E i \in 1..Len(before) :
       after = SubSeq(before, 1, i - 1) \o SubSeq(before, i + 1, Len(before))

\* C24: deleting a card, an account or a category removes that one entity,
\* leaves the other two lists and every record as they were, so the monthly
\* summary and the forecast are what they were; and a card purchase saved
\* for a card that is no longer in the list adds nothing.
C24_NoCascade ==
  [][ /\ deleteCard => /\ OneRemoved(cards, cards')
                       /\ UNCHANGED << accounts, categories >>
      /\ deleteBank => /\ OneRemoved(accounts, accounts')
                       /\ UNCHANGED << cards, categories >>
      /\ deleteCategory => /\ OneRemoved(categories, categories')
                           /\ UNCHANGED << cards, accounts >>
      /\ (deleteCard \/ deleteBank \/ deleteCategory)
           => /\ transactions' = transactions
              /\ Summary(CurrentMonthTransactions(transactions', currentDate', tz')) = summary
              /\ FutureInvoices(transactions', currentDate', tz') = futureInvoices
      /\ (/\ lastOp'.kind = "add"
          /\ lastOp'.req.paymentMethod = CREDIT_CARD
          /\ ~CardListed(cards, lastOp'.req.cardId))
           => Len(transactions') = Len(transactions) ]_vars

\* February is displayed; the card, the account and the category that the
\* two records name are all deleted, the records still name them and the
\* card record still counts in the summary and the forecast; a card purchase
\* for the deleted card was then saved and added nothing
C24_Witness ==
  /\ cards = << >> /\ accounts = << >>
  /\ \A i \in 1..Len(categories) : categories[i].id # 301
  /\ currentDate.m = 2
  /\ Len(transactions) = 2
  /\ transactions[1].cardId = FirstId.card /\ transactions[1].categoryId = 301
  /\ transactions[2].accountId = FirstId.account
  /\ summary.balanceProjected = Num(0 - 90)
  /\ futureInvoices[1].total = Num(90)
  /\ IsCreditRequest /\ Req.cardId = FirstId.card

\* C25: the load effect succeeds on every stored document; each loaded
\* record is the stored one with status COMPLETED and purchaseDate = date
\* filled in where the stored record had none; the categories are the stored
\* ones, or the default list when those are empty or absent; and a document
\* the app itself saved is loaded as the state it was saved from.
C25_LoadMigration ==
  [][ LoadEffect =>
        /\ loadPc' = "loaded"
        /\ stored.exists =>
             /\ Len(transactions') = Len(stored.transactions)
             /\ \A i \in 1..Len(stored.transactions) :
                  LET o == stored.transactions[i]
                  IN  transactions'[i] =
                        [o EXCEPT !.status = IF o.status = NoStatus THEN COMPLETED ELSE o.status,
                                  !.purchaseDate = IF o.purchaseDate = UndefinedString
                                                   THEN o.date ELSE o.purchaseDate]
             /\ cards' = stored.cards
             /\ accounts' = stored.accounts
             /\ categories' = IF stored.hasCategories /\ stored.categories # << >>
                              THEN stored.categories ELSE DefaultCategories
        /\ stored.byApp =>
             /\ transactions' = stored.transactions
             /\ cards' = stored.cards
             /\ accounts' = stored.accounts
             /\ categories' = stored.categories ]_vars

\* C26: the completion of an advice request or of a receipt analysis leaves
\* the ledger, the cards, the accounts, the categories and the stored
\* document as they were, whatever the user did meanwhile; a completed
\* advice request shows the advice or one of the fallback messages with the
\* loading flag down; a completed analysis takes the overlay down and opens
\* the entry form; and the ledger grows only by a submit of that form.
C26_CollaboratorsFrame ==
  [][ /\ (AdviceResolved \/ ReceiptParsed(AssistInputs))
           => UNCHANGED << transactions, cards, accounts, categories, stored >>
      /\ AdviceResolved
           => /\ advice'.text \in AdviceOutcomes
              /\ ~advice'.loading
              /\ UNCHANGED << formVars, receipt >>
      /\ ReceiptParsed(AssistInputs)
           => /\ receipt'.pc = "idle"
              /\ showAddModal'
              /\ advice' = advice
      /\ transactions' # transactions
           => \/ lastOp'.kind \in {"add", "edit"}
              \/ handleToggleStatus ]_vars

\* an advice request failed and a receipt analysis completed while the
\* ledger held one record: the fallback message is shown, nothing is
\* loading, the entry form is open with the analysis' data, the ledger still
\* holds that one record
C26_Witness ==
  /\ advice = [text |-> "error", loading |-> FALSE, pending |-> FALSE]
  /\ receipt.pc = "idle"
  /\ showAddModal
  /\ editingTransaction.present
  /\ ~HasId(editingTransaction)
  /\ Len(transactions) = 1

\* what C27 compares of a record: its amount, its accounting date and its
\* installment position
RecordShape(t) ==
  [amount |-> t.amount, date |-> t.date,
   current |-> t.installments.current, total |-> t.installments.total]

SequenceShape(seq) == [i \in 1..Len(seq) |-> RecordShape(seq[i])]

\* C27: a card purchase submitted from a form that a receipt analysis had
\* pre-filled produces records of the same count, amounts, accounting dates
\* and installment positions as a manually opened form produces for the same
\* card, purchase date, amount, selected installment count and amount mode
\* (with one of the invoice overrides the manual form can send)
C27_ReceiptSamePath ==
  [][ ( /\ editingTransaction.present
        /\ ~HasId(editingTransaction)
        /\ lastOp'.kind = "add"
        /\ lastOp'.req.type = EXPENSE
        /\ lastOp'.req.paymentMethod = CREDIT_CARD )
      => LET fd      == lastOp'.req
             added   == SubSeq(transactions', lastOp'.arg + 1, Len(transactions'))
             shown   == [paymentMethod |-> CREDIT_CARD, cardId |-> fd.cardId, date |-> fd.date]
             targets == TargetChoices(shown, OfferedInvoices(formInit, cards, AllocInputs, tz),
                                      NullEditing, cards, tz)
             manual(t) == TransactionsToAdd(
                            [fd EXCEPT !.installmentCount = lastOp'.installments,
                                       !.targetInvoiceDate = t],
                            cards, currentUser, nextId.tx, lastOp'.now, tz)
         IN  \E t \in targets : SequenceShape(added) = SequenceShape(manual(t)) ]_vars

\* the records that carry an installments object: those of card purchases
Installment(t) == t.installments.current >= 1

C29_OverrideTracksForm ==
  [][ ( /\ ~editingTransaction.present
        /\ lastOp'.kind = "add"
        /\ lastOp'.req.type = EXPENSE
        /\ lastOp'.req.paymentMethod = CREDIT_CARD
        /\ lastOp'.options # << >> )
      => lastOp'.req.targetInvoiceDate
           \in { toISOString(lastOp'.options[k], tz) : k \in 1..3 } ]_vars

\* C30: until the load step has run nothing writes the stored document, and
\* the load step leaves an existing document alone or replaces it by its own
\* migrated content, never by the state of the first render; once loaded,
\* the stored document is the whole in-memory state after every add, edit,
\* toggle, delete and settings change, so an add of several installments is
\* stored with all of them
C30_PersistenceOrdering ==
  /\ [](isLoaded => stored = Stringify(transactions, cards, accounts, categories))
  /\ [][ /\ (~isLoaded /\ ~LoadEffect) => stored' = stored
         /\ (LoadEffect /\ stored.exists)
              => \/ stored' = stored
                 \/ /\ stored.hasTransactions
                    /\ stored' = Stringify(MigrateTransactions(stored.transactions),
                                           stored.cards, stored.accounts,
                                           MigrateCategories(stored))
         /\ lastOp'.kind = "add"
              => /\ isLoaded
                 /\ Len(stored'.transactions) = Len(stored.transactions) + lastOp'.installments
                 /\ stored'.transactions = transactions' ]_vars

\* a stored ledger of one record was loaded, the record deleted and a card
\* purchase in two installments added: both installments are in the stored
\* document
C30_Witness ==
  /\ isLoaded
  /\ lastOp.kind = "add"
  /\ lastOp.installments = 2
  /\ Len(transactions) = 2
  /\ transactions[1].installments.current = 1
  /\ transactions[2].installments.current = 2
  /\ stored.transactions = transactions
  /\ stored.cards = << HomeCard >>

====
